---- MODULE Spec2Model ----
(***************************************************************************)
(* Session / conversation orchestration layer of metropolis:               *)
(*   - StreamAccumulator : the chunk fold of AgentManager                  *)
(*   - ReplayLogMirror   : JSONLHandler against the jsonl_lines store      *)
(*   - SessionRegistry + ProtocolGateway : AgentManager and the            *)
(*     /ws/agent endpoint over the session / message store                 *)
(*   - WorkspaceService.chat_in_workspace : the same contract over SSE     *)
(*   - AgentManager.cleanup_client : the teardown of the registry          *)
(*   - ConversationLogStore : the two store classes called directly        *)
(*   - WorkflowService.execute_workflow : the one-shot workflow run        *)
(*   - DELETE /sessions/{id} : delete_session next to the gateway          *)
(*   - the three streaming endpoints side by side (one per run)            *)
(*   - the websocket and chat_in_workspace under serial, unfailing turns   *)
(* Eleven specifications share the variables: SpecFold, SpecMirror, Spec,  *)
(* SpecFaulty, SpecWorkspace, SpecRegistry, SpecStore, SpecWorkflow,       *)
(* SpecDelete, SpecSurfaces and SpecSerial.                                *)
(* Text is a sequence of one-character strings.                            *)
(***************************************************************************)
EXTENDS Naturals, Integers, Sequences, FiniteSets, TLC

VARIABLES
    \* ---- StreamAccumulator (SpecFold)
    fold_events,      \* json messages produced by handler.process_message, in arrival order
    fold_pos,         \* how many of them the loop has consumed
    content_blocks,   \* the accumulator of the loop
    surfaces,         \* per protocol surface: the accumulator of its own loop and the
                      \* events it has relayed to its client, in order
    \* ---- durable store (shared)
    jsonl_lines,      \* collection jsonl_lines: set of [claude_session_id, line_number, line]
    sessions,         \* collection sessions: set of session documents
    messages,         \* collection messages: set of message documents
    workflow_runs,    \* collection workflow_runs: set of workflow run documents
    \* ---- protocol surface
    surface,          \* which endpoint serves the requests of this run: the websocket
                      \* of agent_routes, the SSE stream of chat_in_workspace or of
                      \* execute_workflow (None where no endpoint is involved)
    \* ---- local filesystem (shared)
    files,            \* session id -> [exists, data]: the <session_id>.jsonl file
    \* ---- ReplayLogMirror caller (SpecMirror)
    mpc,              \* position of the caller inside restore / persist, or of the
                      \* HTTP handler inside delete_session (SpecDelete)
    mlines,           \* the local variable `lines` of the running operation
    ghost,            \* history of the last mirror operations (observation only)
    \* ---- SessionRegistry + ProtocolGateway (Spec)
    clients,          \* AgentManager.clients: session id -> the runtime session of the
                      \* cached connection (None = no entry)
    streaming_buffers, \* AgentManager.streaming_buffers: session id -> has an entry
    conns,            \* runtime session id -> number of open connections to it
    tr,               \* one record per websocket transport: handler position and locals
    assigned,         \* session ids the runtime has handed out so far
    newest,           \* session id of the most recently modified *.jsonl file
    turns             \* number of queries the gateway has accepted so far

storeVars  == <<jsonl_lines, sessions, messages>>
foldVars   == <<fold_events, fold_pos, content_blocks, surfaces>>
mirrorVars == <<mpc, mlines, ghost>>
gateVars   == <<clients, streaming_buffers, conns, tr, assigned, newest, turns>>
vars == <<fold_events, fold_pos, content_blocks, surfaces, jsonl_lines, sessions, messages,
          workflow_runs, surface, files, mpc, mlines, ghost, clients, streaming_buffers, conns, tr, assigned,
          newest, turns>>

(***************************************************************************)
(* Bounds                                                                  *)
(***************************************************************************)
MaxEvents == 4
MaxFileLen == 4
MaxTurns == 3
MaxConns == 2
MaxOps == 3
MaxCost == 2

SessionIds == {"s1", "s2"}
Transports == {"t1", "t2"}
None == "none"

NL == "\n"
Chars == {"a", "b"}

(***************************************************************************)
(* StreamAccumulator                                                       *)
(***************************************************************************)
Txt(c) == <<c>>

JsonMessages ==
    { [type |-> "text", content |-> Txt("a")],
      [type |-> "text", content |-> Txt("b")],
      [type |-> "text", content |-> Txt("c")],
      [type |-> "thinking", content |-> Txt("a")],
      [type |-> "tool_use", content |-> Txt("X")],
      [type |-> "tool_result", content |-> Txt("Y")] }

RECURSIVE SeqsUpTo(_, _)
SeqsUpTo(S, n) ==
    IF n = 0 THEN { <<>> }
    ELSE LET shorter == SeqsUpTo(S, n - 1)
         IN  shorter \cup { Append(q, x) : q \in shorter, x \in S }

\* a bug: every message whose type equals the trailing block's type is merged
Accumulate_mergeAnyType(blocks, json_msg) ==
    IF blocks # <<>> /\ blocks[Len(blocks)].type = json_msg.type
    THEN [blocks EXCEPT ![Len(blocks)].content = @ \o json_msg.content]
    ELSE Append(blocks, [type |-> json_msg.type, content |-> json_msg.content])

\* the body of `for json_msg in json_messages` after the yield
Accumulate(blocks, json_msg) ==
    IF json_msg.type \in {"text", "thinking"}
    THEN IF blocks # <<>> /\ blocks[Len(blocks)].type = json_msg.type
         THEN [blocks EXCEPT ![Len(blocks)].content = @ \o json_msg.content]
         ELSE Append(blocks, [type |-> json_msg.type, content |-> json_msg.content])
    ELSE IF json_msg.type \in {"tool_use", "tool_result"}
         THEN Append(blocks, json_msg)
         ELSE blocks

\* a bug: a tool_result is relayed but not kept
AccumulateWorkflow_dropToolResult(blocks, ws_message) ==
    IF ws_message.type \in {"text", "thinking"}
    THEN IF blocks # <<>> /\ blocks[Len(blocks)].type = ws_message.type
         THEN [blocks EXCEPT ![Len(blocks)].content = @ \o ws_message.content]
         ELSE Append(blocks, [type |-> ws_message.type, content |-> ws_message.content])
    ELSE IF ws_message.type \in {"tool_use"}
         THEN Append(blocks, ws_message)
         ELSE blocks

\* the same loop body in create_session_with_first_query.response_generator
AccumulateFirst(blocks, json_msg) ==
    IF json_msg.type \in {"text", "thinking"}
    THEN IF blocks # <<>> /\ blocks[Len(blocks)].type = json_msg.type
         THEN [blocks EXCEPT ![Len(blocks)].content = @ \o json_msg.content]
         ELSE Append(blocks, [type |-> json_msg.type, content |-> json_msg.content])
    ELSE IF json_msg.type \in {"tool_use", "tool_result"}
         THEN Append(blocks, json_msg)
         ELSE blocks

\* chat_in_workspace, resumed thread
AccumulateResumedThread(blocks, msg) ==
    IF msg.type \in {"text", "thinking"}
    THEN IF blocks # <<>> /\ blocks[Len(blocks)].type = msg.type
         THEN [blocks EXCEPT ![Len(blocks)].content = @ \o msg.content]
         ELSE Append(blocks, [type |-> msg.type, content |-> msg.content])
    ELSE IF msg.type \in {"tool_use", "tool_result"}
         THEN Append(blocks, msg)
         ELSE blocks

\* chat_in_workspace, new thread
AccumulateNewThread(blocks, msg) ==
    IF msg.type \in {"text", "thinking"}
    THEN IF blocks # <<>> /\ blocks[Len(blocks)].type = msg.type
         THEN [blocks EXCEPT ![Len(blocks)].content = @ \o msg.content]
         ELSE Append(blocks, [type |-> msg.type, content |-> msg.content])
    ELSE IF msg.type \in {"tool_use", "tool_result"}
         THEN Append(blocks, msg)
         ELSE blocks

\* execute_workflow
AccumulateWorkflow(blocks, ws_message) ==
    IF ws_message.type \in {"text", "thinking"}
    THEN IF blocks # <<>> /\ blocks[Len(blocks)].type = ws_message.type
         THEN [blocks EXCEPT ![Len(blocks)].content = @ \o ws_message.content]
         ELSE Append(blocks, [type |-> ws_message.type, content |-> ws_message.content])
    ELSE IF ws_message.type \in {"tool_use", "tool_result"}
         THEN Append(blocks, ws_message)
         ELSE blocks

Surfaces == {"first", "send", "resumed_thread", "new_thread", "workflow"}

\* one pass of `for json_msg in json_messages` on surface p: the message is
\* yielded to the client, then accumulated
RelayAndAccumulate(p, r, json_msg) ==
    [relayed |-> Append(r.relayed, json_msg),
     blocks |-> CASE p = "first" -> AccumulateFirst(r.blocks, json_msg)
                  [] p = "send" -> Accumulate(r.blocks, json_msg)
                  [] p = "resumed_thread" -> AccumulateResumedThread(r.blocks, json_msg)
                  [] p = "new_thread" -> AccumulateNewThread(r.blocks, json_msg)
                  [] p = "workflow" -> AccumulateWorkflow(r.blocks, json_msg)]

FoldInit ==
    /\ fold_events \in SeqsUpTo(JsonMessages, MaxEvents)
    /\ fold_pos = 0
    /\ content_blocks = <<>>
    /\ surfaces = [p \in Surfaces |-> [relayed |-> <<>>, blocks |-> <<>>]]

FoldStep ==
    /\ fold_pos < Len(fold_events)
    /\ fold_pos' = fold_pos + 1
    /\ content_blocks' = Accumulate(content_blocks, fold_events[fold_pos + 1])
    /\ surfaces' = [p \in Surfaces |->
                      RelayAndAccumulate(p, surfaces[p], fold_events[fold_pos + 1])]
    /\ UNCHANGED <<fold_events, storeVars, files, mirrorVars, gateVars>>
    /\ UNCHANGED <<workflow_runs, surface>>

(***************************************************************************)
(* Local replay-log file and the jsonl_lines collection                    *)
(***************************************************************************)
Missing == [exists |-> FALSE, data |-> <<>>]
File(d) == [exists |-> TRUE, data |-> d]

\* line.rstrip("\n\r") on a line as the text-mode iterator returns it
RECURSIVE rstrip(_)
rstrip(line) ==
    IF line # <<>> /\ line[Len(line)] = NL
    THEN rstrip(SubSeq(line, 1, Len(line) - 1))
    ELSE line

\* `for line in f`: the text is cut after every newline, the terminator kept
RECURSIVE IterLines(_, _)
IterLines(data, cur) ==
    IF data = <<>> THEN (IF cur = <<>> THEN <<>> ELSE <<cur>>)
    ELSE IF Head(data) = NL
         THEN <<Append(cur, NL)>> \o IterLines(Tail(data), <<>>)
         ELSE IterLines(Tail(data), Append(cur, Head(data)))

RECURSIVE KeepStripped(_)
KeepStripped(raw) ==
    IF raw = <<>> THEN <<>>
    ELSE LET stripped == rstrip(Head(raw))
         IN  IF stripped # <<>> THEN <<stripped>> \o KeepStripped(Tail(raw))
             ELSE KeepStripped(Tail(raw))

read_jsonl_file(f) ==
    IF ~f.exists THEN <<>> ELSE KeepStripped(IterLines(f.data, <<>>))

RECURSIVE JoinLines(_)
JoinLines(lines) ==
    IF lines = <<>> THEN <<>>
    ELSE Head(lines) \o <<NL>> \o JoinLines(Tail(lines))

\* a bug: the file is opened for appending instead of being overwritten
write_jsonl_file_append(f, lines) == File(f.data \o JoinLines(lines))

write_jsonl_file(f, lines) == File(JoinLines(lines))

LinesOf(store, sid) == { d \in store : d.claude_session_id = sid }

\* find(...).sort("line_number", ASCENDING)
RECURSIVE SortByLineNumber(_)
SortByLineNumber(docs) ==
    IF docs = {} THEN <<>>
    ELSE LET first == CHOOSE d \in docs : \A e \in docs : d.line_number <= e.line_number
         IN  <<first.line>> \o SortByLineNumber(docs \ {first})

\* a bug: the cursor is sorted DESCENDING
RECURSIVE SortByLineNumberDesc(_)
SortByLineNumberDesc(docs) ==
    IF docs = {} THEN <<>>
    ELSE LET first == CHOOSE d \in docs : \A e \in docs : d.line_number >= e.line_number
         IN  <<first.line>> \o SortByLineNumberDesc(docs \ {first})

get_jsonl_lines_descending(store, sid) == SortByLineNumberDesc(LinesOf(store, sid))

get_jsonl_lines(store, sid) == SortByLineNumber(LinesOf(store, sid))

\* delete_many({"claude_session_id": sid})
delete_jsonl_lines(store, sid) == store \ LinesOf(store, sid)

\* the unique index on (claude_session_id, line_number) holds a document at the key
DuplicateLineKey(store, sid, n) ==
    \E d \in store : d.claude_session_id = sid /\ d.line_number = n

\* a bug: the unique index on the lines was never created
insert_jsonl_lines_noIndex(store, sid, lines) ==
    store \cup { [claude_session_id |-> sid, line_number |-> i - 1, line |-> lines[i]]
                 : i \in 1..Len(lines) }

\* insert_many over enumerate(lines): an ordered bulk insert, which stores the
\* documents in list order and stops (BulkWriteError) at the first one whose
\* key the unique index already holds
insert_jsonl_lines(store, sid, lines) ==
    store \cup { [claude_session_id |-> sid, line_number |-> i - 1, line |-> lines[i]]
                 : i \in { k \in 1..Len(lines) :
                             \A j \in 1..k : ~DuplicateLineKey(store, sid, j - 1) } }

\* insert_many(documents) raises BulkWriteError
BulkWriteError(store, sid, lines) ==
    \E i \in 1..Len(lines) : DuplicateLineKey(store, sid, i - 1)

(***************************************************************************)
(* ReplayLogMirror: JSONLHandler.restore_from_mongodb / persist_to_mongodb *)
(* called one at a time for one session, the runtime writing the local     *)
(* file between the calls.                                                 *)
(***************************************************************************)
MirrorSid == "s1"

NoGhost == [last |-> "none", g6 |-> "none", stored0 |-> {},
            g9 |-> "none", lines0 |-> <<>>, file0 |-> Missing]

MirrorInit ==
    /\ jsonl_lines = {}
    /\ files = [s \in SessionIds |-> Missing]
    /\ mpc = "idle"
    /\ mlines = <<>>
    /\ ghost = NoGhost

\* the runtime creates its log file
RuntimeCreate ==
    /\ mpc = "idle"
    /\ ~files[MirrorSid].exists
    /\ files' = [files EXCEPT ![MirrorSid] = File(<<>>)]
    /\ ghost' = [NoGhost EXCEPT !.last = "write"]
    /\ UNCHANGED <<jsonl_lines, mpc, mlines, sessions, messages, foldVars, gateVars>>
    /\ UNCHANGED <<workflow_runs, surface>>

\* the runtime writes one more character to its log file
RuntimeWrite ==
    /\ mpc = "idle"
    /\ files[MirrorSid].exists
    /\ Len(files[MirrorSid].data) < MaxFileLen
    /\ \E c \in Chars \cup {NL} :
         files' = [files EXCEPT ![MirrorSid] = File(Append(@.data, c))]
    /\ ghost' = [NoGhost EXCEPT !.last = "write"]
    /\ UNCHANGED <<jsonl_lines, mpc, mlines, sessions, messages, foldVars, gateVars>>
    /\ UNCHANGED <<workflow_runs, surface>>

\* the session moves to another pod: the local file is gone (os.rename in the tests)
RemoveFile ==
    /\ mpc = "idle"
    /\ files' = [files EXCEPT ![MirrorSid] = Missing]
    /\ ghost' = [NoGhost EXCEPT
                   !.last = "remove",
                   !.g9 = IF ghost.g9 = "P" THEN "PD" ELSE "none",
                   !.lines0 = IF ghost.g9 = "P" THEN ghost.lines0 ELSE <<>>]
    /\ UNCHANGED <<jsonl_lines, mpc, mlines, sessions, messages, foldVars, gateVars>>
    /\ UNCHANGED <<workflow_runs, surface>>

\* restore_from_mongodb: lines = await session_store.get_jsonl_lines(session_id)
RestoreRead ==
    /\ mpc = "idle"
    /\ mlines' = get_jsonl_lines(jsonl_lines, MirrorSid)
    /\ mpc' = "restore_write"
    /\ UNCHANGED <<jsonl_lines, files, ghost, sessions, messages, foldVars, gateVars>>
    /\ UNCHANGED <<workflow_runs, surface>>

\* restore_from_mongodb: if lines: self.write_jsonl_file(session_id, lines)
RestoreWrite ==
    /\ mpc = "restore_write"
    /\ files' = IF mlines # <<>>
                THEN [files EXCEPT ![MirrorSid] = write_jsonl_file(@, mlines)]
                ELSE files
    /\ mpc' = "idle"
    /\ mlines' = <<>>
    /\ ghost' = [last |-> "restore", g6 |-> "R",
                 stored0 |-> LinesOf(jsonl_lines, MirrorSid),
                 g9 |-> IF ghost.g9 = "PD" THEN "PDR" ELSE "none",
                 lines0 |-> IF ghost.g9 = "PD" THEN ghost.lines0 ELSE <<>>,
                 file0 |-> files[MirrorSid]]
    /\ UNCHANGED <<jsonl_lines, sessions, messages, foldVars, gateVars>>
    /\ UNCHANGED <<workflow_runs, surface>>

PersistGhost ==
    [last |-> "persist",
     g6 |-> IF ghost.g6 = "R" THEN "RP" ELSE "none",
     stored0 |-> IF ghost.g6 = "R" THEN ghost.stored0 ELSE {},
     g9 |-> "P", lines0 |-> read_jsonl_file(files[MirrorSid]), file0 |-> Missing]

\* persist_to_mongodb: lines = self.read_jsonl_file(session_id); if lines: ...
PersistStart ==
    /\ mpc = "idle"
    /\ LET lines == read_jsonl_file(files[MirrorSid])
       IN  IF lines # <<>>
           THEN /\ mlines' = lines
                /\ mpc' = "persist_delete"
                /\ UNCHANGED ghost
           ELSE /\ ghost' = PersistGhost
                /\ UNCHANGED <<mlines, mpc>>
    /\ UNCHANGED <<jsonl_lines, files, sessions, messages, foldVars, gateVars>>
    /\ UNCHANGED <<workflow_runs, surface>>

\* save_jsonl_lines: await self.jsonl_lines.delete_many(...)
PersistDelete ==
    /\ mpc = "persist_delete"
    /\ jsonl_lines' = delete_jsonl_lines(jsonl_lines, MirrorSid)
    /\ IF mlines = <<>>
       THEN /\ mpc' = "idle"
            /\ ghost' = PersistGhost
       ELSE /\ mpc' = "persist_insert"
            /\ UNCHANGED ghost
    /\ UNCHANGED <<files, mlines, sessions, messages, foldVars, gateVars>>
    /\ UNCHANGED <<workflow_runs, surface>>

\* save_jsonl_lines: await self.jsonl_lines.insert_many(documents)
PersistInsert ==
    /\ mpc = "persist_insert"
    /\ jsonl_lines' = insert_jsonl_lines(jsonl_lines, MirrorSid, mlines)
    /\ mpc' = "idle"
    /\ mlines' = <<>>
    /\ ghost' = PersistGhost
    /\ UNCHANGED <<files, sessions, messages, foldVars, gateVars>>
    /\ UNCHANGED <<workflow_runs, surface>>

MirrorNext ==
    \/ RuntimeCreate
    \/ RuntimeWrite
    \/ RemoveFile
    \/ RestoreRead
    \/ RestoreWrite
    \/ PersistStart
    \/ PersistDelete
    \/ PersistInsert

(***************************************************************************)
(* Specifications of the two leaf components                               *)
(***************************************************************************)
FoldFrozen ==
    fold_events = <<>> /\ fold_pos = 0 /\ content_blocks = <<>> /\ surfaces = <<>>
MirrorFrozen == mpc = "idle" /\ mlines = <<>> /\ ghost = NoGhost
StoreEmpty == jsonl_lines = {} /\ sessions = {} /\ messages = {} /\ workflow_runs = {}
FilesEmpty == files = [s \in SessionIds |-> Missing]
GateFrozen ==
    /\ clients = <<>>
    /\ streaming_buffers = <<>>
    /\ conns = <<>>
    /\ tr = <<>>
    /\ assigned = {}
    /\ newest = None
    /\ turns = 0

InitFold == FoldInit /\ surface = None /\ StoreEmpty /\ FilesEmpty /\ MirrorFrozen /\ GateFrozen
NextFold == FoldStep
SpecFold == InitFold /\ [][NextFold]_vars

InitMirror ==
    MirrorInit /\ surface = None /\ sessions = {} /\ messages = {} /\ workflow_runs = {} /\ FoldFrozen /\ GateFrozen
NextMirror == MirrorNext
SpecMirror == InitMirror /\ [][NextMirror]_vars

(***************************************************************************)
(* StreamAccumulator claims                                                *)
(***************************************************************************)
IsDelta(e) == e.type \in {"text", "thinking"}

\* Reference: maximal runs of adjacent deltas of one tag become one block, built
\* from the right; tool events stay blocks of their own.
RECURSIVE GroupRuns(_)
GroupRuns(evs) ==
    IF evs = <<>> THEN <<>>
    ELSE LET e == Head(evs)
             rest == GroupRuns(Tail(evs))
             mergeable == /\ IsDelta(e)
                          /\ Tail(evs) # <<>>
                          /\ Head(Tail(evs)).type = e.type
         IN  IF mergeable
             THEN <<[type |-> e.type, content |-> e.content \o rest[1].content]>>
                  \o Tail(rest)
             ELSE <<e>> \o rest

ExampleEvents ==
    << [type |-> "text", content |-> Txt("a")],
       [type |-> "text", content |-> Txt("b")],
       [type |-> "tool_use", content |-> Txt("X")],
       [type |-> "text", content |-> Txt("c")] >>

ExampleBlocks ==
    << [type |-> "text", content |-> <<"a", "b">>],
       [type |-> "tool_use", content |-> Txt("X")],
       [type |-> "text", content |-> Txt("c")] >>

\* C10: after any prefix of the events, the accumulator is the run-grouping of that
\* prefix: same-tag deltas adjacent in arrival order are merged into the trailing
\* block, a tool_use / tool_result is a block of its own that nothing is merged into;
\* [text a, text b, tool_use X, text c] gives [{text,ab},{tool_use,X},{text,c}].
C10_FoldIsRunGrouping ==
    /\ content_blocks = GroupRuns(SubSeq(fold_events, 1, fold_pos))
    /\ (fold_events = ExampleEvents /\ fold_pos = 4) => content_blocks = ExampleBlocks

C10_Witness ==
    /\ fold_events = ExampleEvents
    /\ fold_pos = 4
    /\ content_blocks = ExampleBlocks

\* C11: every protocol surface (websocket first prompt, websocket send, SSE
\* workspace chat on a resumed and on a new thread, SSE workflow) folds the same
\* events into the same content blocks, and relays to its client exactly the
\* events it has folded, in arrival order.
C11_SurfacesFoldAlike ==
    \A p, q \in Surfaces :
        /\ surfaces[p].blocks = surfaces[q].blocks
        /\ surfaces[p].relayed = SubSeq(fold_events, 1, fold_pos)

\* four events with a merge, a tool_use, a tool_result and a type change have
\* gone through every surface
C11_Witness ==
    /\ fold_pos = 4
    /\ fold_events = << [type |-> "text", content |-> Txt("a")],
                        [type |-> "text", content |-> Txt("b")],
                        [type |-> "tool_result", content |-> Txt("Y")],
                        [type |-> "thinking", content |-> Txt("a")] >>
    /\ \A p \in Surfaces :
          surfaces[p].blocks = << [type |-> "text", content |-> <<"a", "b">>],
                                 [type |-> "tool_result", content |-> Txt("Y")],
                                 [type |-> "thinking", content |-> Txt("a")] >>

(***************************************************************************)
(* ReplayLogMirror claims                                                  *)
(***************************************************************************)
Stored == LinesOf(jsonl_lines, MirrorSid)
LocalLines == read_jsonl_file(files[MirrorSid])
\* the last mirror operation to complete was `op`, and nothing ran or changed since
After(op) == mpc = "idle" /\ ghost.last = op

\* position of a stored document in ascending line_number order
Rank(d, docs) == 1 + Cardinality({ e \in docs : e.line_number < d.line_number })

\* the documents, taken in ascending line_number order, are the lines L
InOrder(docs, L) ==
    /\ Cardinality(docs) = Len(L)
    /\ \A d \in docs : Rank(d, docs) \in 1..Len(L) /\ L[Rank(d, docs)] = d.line
    /\ \A d, e \in docs : d # e => Rank(d, docs) # Rank(e, docs)

\* C6 as stated: restore then persist, nothing written in between, leaves the
\* stored lines as they were before restore, whatever the store and the file held.
C6_RestorePersistFixedPoint ==
    (mpc = "idle" /\ ghost.g6 = "RP") => Stored = ghost.stored0

\* C6 amended: the same, except when the store held no line of the session while the
\* local file had a non-empty line.
C6_RestorePersistFixedPointIfStored ==
    (mpc = "idle" /\ ghost.g6 = "RP" /\ (ghost.stored0 # {} \/ LocalLines = <<>>))
        => Stored = ghost.stored0

C6_Witness ==
    /\ mpc = "idle"
    /\ ghost.g6 = "RP"
    /\ Cardinality(ghost.stored0) >= 2
    /\ \E d, e \in ghost.stored0 : d.line # e.line

\* C7: once persist has completed, the stored lines are the non-empty lines of the
\* local file in file order (same number, same content), a missing or blank file
\* included.
C7_PersistStoresLocalLines ==
    After("persist") => InOrder(Stored, LocalLines)

\* C8: restore with stored lines leaves a file that holds exactly the stored lines
\* in ascending line-number order, each terminated by a newline, and nothing else;
\* with no stored line the file is left as it was.
C8_RestoreWritesStoredLines ==
    After("restore") =>
        IF Stored # {}
        THEN LET raw == IterLines(files[MirrorSid].data, <<>>)
             IN  /\ files[MirrorSid].exists
                 /\ \A i \in 1..Len(raw) : raw[i][Len(raw[i])] = NL
                 /\ InOrder(Stored, [i \in 1..Len(raw) |->
                                        SubSeq(raw[i], 1, Len(raw[i]) - 1)])
        ELSE files[MirrorSid] = ghost.file0

C8_Witness ==
    /\ After("restore")
    /\ Cardinality(Stored) >= 2
    /\ \E d, e \in Stored : d.line # e.line
    /\ ghost.file0.exists
    /\ ghost.file0.data # <<>>
    /\ ghost.file0.data # files[MirrorSid].data

\* C9: persist, removal of the local file, restore: the file reads back as the
\* non-empty lines it had before persist.
C9_PersistRemoveRestoreRoundTrip ==
    (mpc = "idle" /\ ghost.g9 = "PDR") => LocalLines = ghost.lines0

(***************************************************************************)
(* ConversationLogStore: the sessions and messages collections             *)
(***************************************************************************)
SessionDoc(sid) ==
    [claude_session_id |-> sid, message_count |-> 0, total_cost_usd |-> 0,
     total_input_tokens |-> 0, total_output_tokens |-> 0]

MessageDoc(sid, seq, role, blocks) ==
    [session_id |-> sid, sequence |-> seq, role |-> role, content_blocks |-> blocks]

MessagesOf(msgs, sid) == { m \in msgs : m.doc.session_id = sid }

\* a bug: the unique session index was never created
DuplicateSessionKey_noIndex(sess, sid) == FALSE

\* the unique index on claude_session_id
DuplicateSessionKey(sess, sid) == \E d \in sess : d.claude_session_id = sid

\* a bug: the unique message index was never created
DuplicateMessageKey_noIndex(msgs, sid, seq) == FALSE

\* the unique index on (session id, sequence)
DuplicateMessageKey(msgs, sid, seq) ==
    \E m \in msgs : m.doc.session_id = sid /\ m.doc.sequence = seq

\* insert_one: every inserted document gets an _id of its own, so two documents
\* with the same fields are two documents
NextObjectId(msgs, doc) == 1 + Cardinality({ m \in msgs : m.doc = doc })

save_message(msgs, doc) == msgs \cup { [id |-> NextObjectId(msgs, doc), doc |-> doc] }

create_session(sess, sid) == sess \cup { SessionDoc(sid) }

\* a bug: the cursor is sorted DESCENDING
RECURSIVE SortBySequenceDesc(_)
SortBySequenceDesc(docs) ==
    IF docs = {} THEN <<>>
    ELSE LET first == CHOOSE d \in docs : \A e \in docs : d.sequence >= e.sequence
         IN  <<first>> \o SortBySequenceDesc(docs \ {first})

get_session_messages_descending(msgs, sid) ==
    SortBySequenceDesc({ m.doc : m \in MessagesOf(msgs, sid) })

\* find(...).sort("sequence", ASCENDING)
RECURSIVE SortBySequence(_)
SortBySequence(docs) ==
    IF docs = {} THEN <<>>
    ELSE LET first == CHOOSE d \in docs : \A e \in docs : d.sequence <= e.sequence
         IN  <<first>> \o SortBySequence(docs \ {first})

\* get_session_messages: the messages of the session, sorted by sequence
get_session_messages(msgs, sid) == SortBySequence({ m.doc : m \in MessagesOf(msgs, sid) })

\* a bug: the next sequence skips one
get_next_sequence_skip(msgs, sid) ==
    IF MessagesOf(msgs, sid) = {} THEN 0
    ELSE 2 + (CHOOSE q \in { m.doc.sequence : m \in MessagesOf(msgs, sid) } :
                 \A m \in MessagesOf(msgs, sid) : m.doc.sequence <= q)

\* a bug: the next sequence is the number of stored messages
get_next_sequence_count(msgs, sid) == Cardinality(MessagesOf(msgs, sid))

\* find_one(..., sort=[("sequence", DESCENDING)])
get_next_sequence(msgs, sid) ==
    IF MessagesOf(msgs, sid) = {} THEN 0
    ELSE 1 + (CHOOSE q \in { m.doc.sequence : m \in MessagesOf(msgs, sid) } :
                 \A m \in MessagesOf(msgs, sid) : m.doc.sequence <= q)

\* a bug: the counter is incremented by two
increment_message_count_twice(sess, sid) ==
    { IF d.claude_session_id = sid THEN [d EXCEPT !.message_count = @ + 2] ELSE d
      : d \in sess }

\* update_one(..., {"$inc": {"message_count": 1}})
increment_message_count(sess, sid) ==
    { IF d.claude_session_id = sid THEN [d EXCEPT !.message_count = @ + 1] ELSE d
      : d \in sess }

\* a bug: the tokens are added and the cost is left as it was
update_session_usage_keep_cost(sess, sid, cost_usd, input_tokens, output_tokens) ==
    { IF d.claude_session_id = sid
      THEN [d EXCEPT !.total_input_tokens = @ + input_tokens,
                     !.total_output_tokens = @ + output_tokens]
      ELSE d
      : d \in sess }

\* update_one(..., {"$inc": tokens, "$set": cost})
update_session_usage(sess, sid, cost_usd, input_tokens, output_tokens) ==
    { IF d.claude_session_id = sid
      THEN [d EXCEPT !.total_cost_usd = cost_usd,
                     !.total_input_tokens = @ + input_tokens,
                     !.total_output_tokens = @ + output_tokens]
      ELSE d
      : d \in sess }

(***************************************************************************)
(* SessionRegistry (AgentManager) and ProtocolGateway (/ws/agent)          *)
(* One action per await of the handler: the effect of the awaited call     *)
(* and the code that runs up to the next await.                            *)
(***************************************************************************)
\* what handler.process_message yields over one response of the runtime
RuntimeScript ==
    << [type |-> "text", content |-> Txt("a")],
       [type |-> "tool_use", content |-> Txt("X")] >>

Prompt == <<[type |-> "text", content |-> Txt("p")]>>

ClosedTr ==
    [pc |-> "closed", claude_session_id |-> None, sid |-> None, conn |-> None,
     seq |-> 0, blocks |-> <<>>, pos |-> 0, lines |-> <<>>, err |-> None,
     history |-> <<>>]

\* a bug: the handler forgets its session id after every message
Idle_unbound(r) == [ClosedTr EXCEPT !.pc = "idle"]

\* back at `data = await websocket.receive_text()`
Idle(r) == [ClosedTr EXCEPT !.pc = "idle", !.claude_session_id = r.claude_session_id]

\* a bug: the failed write is tried again under the next sequence number
Raise_retry(r, e) == [r EXCEPT !.seq = r.seq + 1]

\* an exception leaves the while loop: except Exception of the endpoint; e is
\* str(e), and a duplicate key error names the collection of the violated index;
\* nothing on the way closes the connection the turn was using
Raise(r, e) ==
    [Idle(r) EXCEPT !.pc = "error", !.err = e, !.sid = r.sid, !.seq = r.seq,
                    !.conn = r.conn]

\* WebSocketDisconnect leaves the while loop: straight to the finally block; when
\* it is raised by a send_text inside `async for response_msg in ...`, the
\* generator of the turn (its session and the sequence of its user message) is
\* abandoned where it stands
Disconnected(r) ==
    [Idle(r) EXCEPT !.pc = "finally", !.err = "WebSocketDisconnect",
                    !.sid = IF r.pc \in {"first_stream", "send_stream"} THEN r.sid ELSE None,
                    !.seq = IF r.pc \in {"first_stream", "send_stream"} THEN r.seq ELSE 0]

KnownIds == { d.claude_session_id : d \in sessions }

GateInit ==
    /\ clients = [s \in SessionIds |-> None]
    /\ streaming_buffers = [s \in SessionIds |-> FALSE]
    /\ conns = [s \in SessionIds |-> 0]
    /\ tr = [t \in Transports |-> ClosedTr]
    /\ assigned = {}
    /\ newest = None
    /\ turns = 0

\* await websocket.accept()
Connect(t) ==
    /\ tr[t].pc = "closed"
    /\ tr' = [tr EXCEPT ![t] = Idle(ClosedTr)]
    /\ UNCHANGED <<storeVars, files, clients, streaming_buffers, conns, assigned, newest, turns,
                   foldVars, mirrorVars>>
    /\ UNCHANGED <<workflow_runs, surface>>

\* the process is restarted once every handler has returned: the cache is a new
\* empty dict and the connections of the old process are gone
Restart ==
    /\ \A t \in Transports : tr[t].pc = "closed"
    /\ \E s \in SessionIds : conns[s] > 0
    /\ clients' = [s \in SessionIds |-> None]
    /\ streaming_buffers' = [s \in SessionIds |-> FALSE]
    /\ conns' = [s \in SessionIds |-> 0]
    /\ UNCHANGED <<storeVars, files, tr, assigned, newest, turns,
                   foldVars, mirrorVars>>
    /\ UNCHANGED <<workflow_runs, surface>>

\* ---- init_session -------------------------------------------------------
\* a bug: the cache is never hit
Cached_never(cl, s) == FALSE

\* resume_session: if claude_session_id in self.clients
Cached(cl, s) == cl[s] # None

\* {"type": "init_session", "claude_session_id": s}; resume_session up to its
\* first await
InitSession(t) ==
    /\ tr[t].pc = "idle"
    /\ \E s \in KnownIds :
         tr' = [tr EXCEPT ![t] =
                  [Idle(@) EXCEPT !.claude_session_id = s, !.sid = s,
                                  !.pc = IF Cached(clients, s) THEN "history"
                                         ELSE "resume_read"]]
    /\ UNCHANGED <<storeVars, files, clients, streaming_buffers, conns, assigned, newest, turns,
                   foldVars, mirrorVars>>
    /\ UNCHANGED <<workflow_runs, surface>>

\* restore_from_mongodb: lines = await session_store.get_jsonl_lines(session_id)
ResumeRead(t) ==
    /\ tr[t].pc = "resume_read"
    /\ tr' = [tr EXCEPT ![t].lines = get_jsonl_lines(jsonl_lines, tr[t].sid),
                        ![t].pc = "resume_write"]
    /\ UNCHANGED <<storeVars, files, clients, streaming_buffers, conns, assigned, newest, turns,
                   foldVars, mirrorVars>>
    /\ UNCHANGED <<workflow_runs, surface>>

\* restore_from_mongodb: if lines: write_jsonl_file; then ClaudeSDKClient(resume=...)
ResumeWrite(t) ==
    /\ tr[t].pc = "resume_write"
    /\ IF tr[t].lines # <<>>
       THEN /\ files' = [files EXCEPT ![tr[t].sid] = write_jsonl_file(@, tr[t].lines)]
            /\ newest' = tr[t].sid
       ELSE UNCHANGED <<files, newest>>
    /\ tr' = [tr EXCEPT ![t].lines = <<>>, ![t].pc = "resume_open"]
    /\ UNCHANGED <<storeVars, clients, streaming_buffers, conns, assigned, turns,
                   foldVars, mirrorVars>>
    /\ UNCHANGED <<workflow_runs, surface>>

\* await client.__aenter__(); self.clients[claude_session_id] = client
ResumeOpen(t) ==
    /\ tr[t].pc = "resume_open"
    /\ conns' = [conns EXCEPT ![tr[t].sid] = @ + 1]
    /\ clients' = [clients EXCEPT ![tr[t].sid] = tr[t].sid]
    /\ streaming_buffers' = [streaming_buffers EXCEPT ![tr[t].sid] = TRUE]
    /\ tr' = [tr EXCEPT ![t].pc = "history"]
    /\ UNCHANGED <<storeVars, files, assigned, newest, turns,
                   foldVars, mirrorVars>>
    /\ UNCHANGED <<workflow_runs, surface>>

\* messages = await agent_manager.session_store.get_session_messages(...)
LoadHistory(t) ==
    /\ tr[t].pc = "history"
    /\ tr' = [tr EXCEPT ![t].history = get_session_messages(messages, tr[t].sid),
                        ![t].pc = "ready"]
    /\ UNCHANGED <<storeVars, files, clients, streaming_buffers, conns, assigned, newest, turns,
                   foldVars, mirrorVars>>
    /\ UNCHANGED <<workflow_runs, surface>>

\* await websocket.send_text({"type": "session_ready", "messages": [...]})
SessionReady(t) ==
    /\ tr[t].pc = "ready"
    /\ tr' = [tr EXCEPT ![t] = Idle(@)]
    /\ UNCHANGED <<storeVars, files, clients, streaming_buffers, conns, assigned, newest, turns,
                   foldVars, mirrorVars>>
    /\ UNCHANGED <<workflow_runs, surface>>

\* ---- query --------------------------------------------------------------
\* a bug: the cache is not consulted
HasClient_always(cl, s) == TRUE

\* client = self.clients.get(claude_session_id); if not client: raise
HasClient(cl, s) == cl[s] # None

\* {"type": "query", "content": ..., "session_id": in_message}
Query(t) ==
    /\ tr[t].pc = "idle"
    /\ turns < MaxTurns
    /\ turns' = turns + 1
    /\ \E in_message \in {None} \cup KnownIds :
         IF tr[t].claude_session_id = None /\ in_message = None
         THEN \* first query: create_session_with_first_query
              /\ assigned # SessionIds
              /\ tr' = [tr EXCEPT ![t].pc = "first_open"]
         ELSE \* subsequent query: send_query_with_persistence up to its first await
              LET s == IF in_message # None THEN in_message
                       ELSE tr[t].claude_session_id
                  r == [tr[t] EXCEPT !.claude_session_id = s]
              IN  tr' = [tr EXCEPT ![t] =
                           IF ~HasClient(clients, s)
                           THEN Raise(r, "NoClient")
                           ELSE [r EXCEPT !.sid = s, !.conn = clients[s],
                                          !.pc = "send_next_seq"]]
    /\ UNCHANGED <<storeVars, files, clients, streaming_buffers, conns, assigned, newest,
                   foldVars, mirrorVars>>
    /\ UNCHANGED <<workflow_runs, surface>>

\* the websocket is gone: receive_text / send_text raises WebSocketDisconnect
ClientDisconnect(t) ==
    /\ \/ tr[t].pc \in {"idle", "ready", "complete"}
       \/ tr[t].pc \in {"first_stream", "send_stream"} /\ tr[t].pos < Len(RuntimeScript)
    /\ tr' = [tr EXCEPT ![t] = Disconnected(@)]
    /\ UNCHANGED <<storeVars, files, clients, streaming_buffers, conns, assigned, newest, turns,
                   foldVars, mirrorVars>>
    /\ UNCHANGED <<workflow_runs, surface>>

\* ---- create_session_with_first_query ------------------------------------
\* client = ClaudeSDKClient(); await client.__aenter__(); await client.query(prompt):
\* the runtime names the new session; its messages may or may not carry the id
\* (reported); a runtime that does not report the id may also have no replay log
\* in the project directory by the time the response ends (logged)
FirstOpenQuery(t) ==
    /\ tr[t].pc = "first_open"
    /\ assigned # SessionIds
    /\ LET s == CHOOSE x \in SessionIds \ assigned :
                  \A y \in SessionIds \ assigned : x = "s1" \/ y # "s1"
       IN  /\ assigned' = assigned \cup {s}
           /\ conns' = [conns EXCEPT ![s] = @ + 1]
           /\ \E reported \in BOOLEAN :
                /\ \E logged \in (IF reported THEN {TRUE} ELSE BOOLEAN) :
                     IF logged
                     THEN /\ files' = [files EXCEPT ![s] = File(<<"a", NL>>)]
                          /\ newest' = s
                     ELSE UNCHANGED <<files, newest>>
                /\ tr' = [tr EXCEPT ![t].conn = s,
                                    ![t].sid = IF reported THEN s ELSE None,
                                    ![t].pc = "first_stream"]
    /\ UNCHANGED <<storeVars, clients, streaming_buffers, turns,
                   foldVars, mirrorVars>>
    /\ UNCHANGED <<workflow_runs, surface>>

\* one json message of the response: yielded, sent, accumulated
StreamEvent(t) ==
    /\ tr[t].pc \in {"first_stream", "send_stream"}
    /\ tr[t].pos < Len(RuntimeScript)
    /\ tr' = [tr EXCEPT ![t].pos = @ + 1,
                        ![t].blocks = Accumulate(@, RuntimeScript[tr[t].pos + 1])]
    /\ UNCHANGED <<storeVars, files, clients, streaming_buffers, conns, assigned, newest, turns,
                   foldVars, mirrorVars>>
    /\ UNCHANGED <<workflow_runs, surface>>

\* a failure handler that stores what it has accumulated as a best-effort
\* assistant message of the runtime session before it raises
StreamFail_saving(t) ==
    /\ tr[t].pc \in {"first_stream", "send_stream"}
    /\ tr' = [tr EXCEPT ![t] = Raise(@, "RuntimeStreamError")]
    /\ messages' = save_message(messages, MessageDoc(tr[t].conn, 1, "assistant", tr[t].blocks))
    /\ UNCHANGED <<jsonl_lines, sessions, files, clients, streaming_buffers, conns, assigned,
                   newest, turns, foldVars, mirrorVars>>
    /\ UNCHANGED <<workflow_runs, surface>>

\* receive_response raises: the runtime failed or disconnected mid-turn
StreamFail(t) ==
    /\ tr[t].pc \in {"first_stream", "send_stream"}
    /\ tr' = [tr EXCEPT ![t] = Raise(@, "RuntimeStreamError")]
    /\ UNCHANGED <<storeVars, files, clients, streaming_buffers, conns, assigned, newest, turns,
                   foldVars, mirrorVars>>
    /\ UNCHANGED <<workflow_runs, surface>>

\* the first response ends: fall back on the newest *.jsonl file when no message
\* carried the id, then await create_session
FirstStreamEnd(t) ==
    /\ tr[t].pc = "first_stream"
    /\ tr[t].pos = Len(RuntimeScript)
    /\ LET captured == IF tr[t].sid # None THEN tr[t].sid ELSE newest
       IN  tr' = [tr EXCEPT ![t] =
                    IF captured = None THEN Raise(@, "SessionIdUnavailable")
                    ELSE [@ EXCEPT !.sid = captured, !.pc = "first_create"]]
    /\ UNCHANGED <<storeVars, files, clients, streaming_buffers, conns, assigned, newest, turns,
                   foldVars, mirrorVars>>
    /\ UNCHANGED <<workflow_runs, surface>>

\* await self.session_store.create_session(session)
FirstCreate(t) ==
    /\ tr[t].pc = "first_create"
    /\ IF DuplicateSessionKey(sessions, tr[t].sid)
       THEN /\ tr' = [tr EXCEPT ![t] = Raise(@, "DuplicateKeyError: sessions")]
            /\ UNCHANGED sessions
       ELSE /\ sessions' = create_session(sessions, tr[t].sid)
            /\ tr' = [tr EXCEPT ![t].seq = 0, ![t].pc = "save_user"]
    /\ UNCHANGED <<jsonl_lines, messages, files, clients, streaming_buffers, conns, assigned, newest, turns,
                   foldVars, mirrorVars>>
    /\ UNCHANGED <<workflow_runs, surface>>

First(r) == r.claude_session_id = None

\* ---- send_query_with_persistence ----------------------------------------
\* user_seq = await self.session_store.get_next_sequence(claude_session_id)
SendNextSeq(t) ==
    /\ tr[t].pc = "send_next_seq"
    /\ tr' = [tr EXCEPT ![t].seq = get_next_sequence(messages, tr[t].sid),
                        ![t].pc = "save_user"]
    /\ UNCHANGED <<storeVars, files, clients, streaming_buffers, conns, assigned, newest, turns,
                   foldVars, mirrorVars>>
    /\ UNCHANGED <<workflow_runs, surface>>

\* await self.session_store.save_message(user_msg)
SaveUser(t) ==
    /\ tr[t].pc = "save_user"
    /\ IF DuplicateMessageKey(messages, tr[t].sid, tr[t].seq)
       THEN /\ tr' = [tr EXCEPT ![t] = Raise(@, "DuplicateKeyError: messages")]
            /\ UNCHANGED messages
       ELSE /\ messages' = save_message(messages,
                              MessageDoc(tr[t].sid, tr[t].seq, "user", Prompt))
            /\ tr' = [tr EXCEPT ![t].pc = "inc_user"]
    /\ UNCHANGED <<jsonl_lines, sessions, files, clients, streaming_buffers, conns, assigned, newest, turns,
                   foldVars, mirrorVars>>
    /\ UNCHANGED <<workflow_runs, surface>>

\* await self.session_store.increment_message_count(...) after the user message
IncUser(t) ==
    /\ tr[t].pc = "inc_user"
    /\ sessions' = increment_message_count(sessions, tr[t].sid)
    /\ tr' = [tr EXCEPT ![t].pc = IF First(tr[t]) THEN "save_asst" ELSE "send_query",
                        ![t].seq = IF First(tr[t]) THEN 1 ELSE @]
    /\ UNCHANGED <<jsonl_lines, messages, files, clients, streaming_buffers, conns, assigned, newest, turns,
                   foldVars, mirrorVars>>
    /\ UNCHANGED <<workflow_runs, surface>>

\* await client.query(prompt): the runtime takes the prompt and extends its log
SendQuery(t) ==
    /\ tr[t].pc = "send_query"
    /\ LET s == tr[t].conn
           grown == File(files[s].data \o <<"b", NL>>)
       IN  IF Len(grown.data) <= MaxFileLen
           THEN files' = [files EXCEPT ![s] = grown] /\ newest' = s
           ELSE UNCHANGED <<files, newest>>
    /\ tr' = [tr EXCEPT ![t].pc = "send_stream"]
    /\ UNCHANGED <<storeVars, clients, streaming_buffers, conns, assigned, turns,
                   foldVars, mirrorVars>>
    /\ UNCHANGED <<workflow_runs, surface>>

\* the response ends: assistant_seq = await get_next_sequence(...)
SendStreamEnd(t) ==
    /\ tr[t].pc = "send_stream"
    /\ tr[t].pos = Len(RuntimeScript)
    /\ tr' = [tr EXCEPT ![t].seq = get_next_sequence(messages, tr[t].sid),
                        ![t].pc = "save_asst"]
    /\ UNCHANGED <<storeVars, files, clients, streaming_buffers, conns, assigned, newest, turns,
                   foldVars, mirrorVars>>
    /\ UNCHANGED <<workflow_runs, surface>>

\* a reply without content blocks is not stored
SaveAssistant_skipped(t) ==
    /\ tr[t].pc = "save_asst"
    /\ tr' = [tr EXCEPT ![t].pc = "inc_asst"]
    /\ UNCHANGED <<storeVars, files, clients, streaming_buffers, conns, assigned, newest,
                   turns, foldVars, mirrorVars>>
    /\ UNCHANGED <<workflow_runs, surface>>

\* await self.session_store.save_message(assistant_msg)
SaveAssistant(t) ==
    /\ tr[t].pc = "save_asst"
    /\ IF DuplicateMessageKey(messages, tr[t].sid, tr[t].seq)
       THEN /\ tr' = [tr EXCEPT ![t] = Raise(@, "DuplicateKeyError: messages")]
            /\ UNCHANGED messages
       ELSE /\ messages' = save_message(messages,
                              MessageDoc(tr[t].sid, tr[t].seq, "assistant", tr[t].blocks))
            /\ tr' = [tr EXCEPT ![t].pc = "inc_asst"]
    /\ UNCHANGED <<jsonl_lines, sessions, files, clients, streaming_buffers, conns, assigned, newest, turns,
                   foldVars, mirrorVars>>
    /\ UNCHANGED <<workflow_runs, surface>>

\* await self.session_store.increment_message_count(...) after the assistant message
IncAssistant(t) ==
    /\ tr[t].pc = "inc_asst"
    /\ sessions' = increment_message_count(sessions, tr[t].sid)
    /\ tr' = [tr EXCEPT ![t].pc = "usage"]
    /\ UNCHANGED <<jsonl_lines, messages, files, clients, streaming_buffers, conns, assigned, newest, turns,
                   foldVars, mirrorVars>>
    /\ UNCHANGED <<workflow_runs, surface>>

\* await update_session_usage(...) with the figures of the ResultMessage; the first
\* query then caches its client and yields session_id_captured
Usage(t) ==
    /\ tr[t].pc = "usage"
    /\ sessions' = update_session_usage(sessions, tr[t].sid, 1, 1, 1)
    /\ IF First(tr[t])
       THEN /\ clients' = [clients EXCEPT ![tr[t].sid] = tr[t].conn]
            /\ streaming_buffers' = [streaming_buffers EXCEPT ![tr[t].sid] = TRUE]
            /\ tr' = [tr EXCEPT ![t].pc = "captured"]
       ELSE /\ tr' = [tr EXCEPT ![t].pc = "complete"]
            /\ UNCHANGED <<clients, streaming_buffers>>
    /\ UNCHANGED <<jsonl_lines, messages, files, conns, assigned, newest, turns,
                   foldVars, mirrorVars>>
    /\ UNCHANGED <<workflow_runs, surface>>

\* the endpoint sends session_id_captured, binds, sends session_created
Captured(t) ==
    /\ tr[t].pc = "captured"
    /\ tr' = [tr EXCEPT ![t].claude_session_id = tr[t].sid, ![t].pc = "complete"]
    /\ UNCHANGED <<storeVars, files, clients, streaming_buffers, conns, assigned, newest, turns,
                   foldVars, mirrorVars>>
    /\ UNCHANGED <<workflow_runs, surface>>

\* the endpoint sends {"type": "complete"} and waits for the next message
Complete(t) ==
    /\ tr[t].pc = "complete"
    /\ tr' = [tr EXCEPT ![t] = Idle(@)]
    /\ UNCHANGED <<storeVars, files, clients, streaming_buffers, conns, assigned, newest, turns,
                   foldVars, mirrorVars>>
    /\ UNCHANGED <<workflow_runs, surface>>

\* ---- leaving the endpoint -----------------------------------------------
\* except Exception: the error event is sent
SendError(t) ==
    /\ tr[t].pc = "error"
    /\ tr' = [tr EXCEPT ![t].pc = "finally"]
    /\ UNCHANGED <<storeVars, files, clients, streaming_buffers, conns, assigned, newest, turns,
                   foldVars, mirrorVars>>
    /\ UNCHANGED <<workflow_runs, surface>>

\* a bug: the finally block also evicts the connection of the bound session
Finally_teardown(t) ==
    /\ tr[t].pc = "finally"
    /\ LET lines == IF tr[t].claude_session_id = None THEN <<>>
                    ELSE read_jsonl_file(files[tr[t].claude_session_id])
       IN  tr' = [tr EXCEPT ![t] =
                    IF lines = <<>> THEN ClosedTr
                    ELSE [@ EXCEPT !.lines = lines, !.pc = "persist_delete"]]
    /\ clients' = [s \in SessionIds |->
                     IF s = tr[t].claude_session_id THEN None ELSE clients[s]]
    /\ UNCHANGED <<storeVars, files, streaming_buffers, conns, assigned, newest, turns,
                   foldVars, mirrorVars>>
    /\ UNCHANGED <<workflow_runs, surface>>

\* finally: if claude_session_id: persist_to_mongodb, up to its first await
Finally(t) ==
    /\ tr[t].pc = "finally"
    /\ LET lines == IF tr[t].claude_session_id = None THEN <<>>
                    ELSE read_jsonl_file(files[tr[t].claude_session_id])
       IN  tr' = [tr EXCEPT ![t] =
                    IF lines = <<>> THEN ClosedTr
                    ELSE [@ EXCEPT !.lines = lines, !.pc = "persist_delete"]]
    /\ UNCHANGED <<storeVars, files, clients, streaming_buffers, conns, assigned, newest, turns,
                   foldVars, mirrorVars>>
    /\ UNCHANGED <<workflow_runs, surface>>

\* save_jsonl_lines: await self.jsonl_lines.delete_many(...)
GatePersistDelete(t) ==
    /\ tr[t].pc = "persist_delete"
    /\ jsonl_lines' = delete_jsonl_lines(jsonl_lines, tr[t].claude_session_id)
    /\ tr' = [tr EXCEPT ![t].pc = "persist_insert"]
    /\ UNCHANGED <<sessions, messages, files, clients, streaming_buffers, conns, assigned, newest, turns,
                   foldVars, mirrorVars>>
    /\ UNCHANGED <<workflow_runs, surface>>

\* save_jsonl_lines: await self.jsonl_lines.insert_many(documents); the handler
\* returns, also when insert_many raises (the finally block prints the error)
GatePersistInsert(t) ==
    /\ tr[t].pc = "persist_insert"
    /\ jsonl_lines' = insert_jsonl_lines(jsonl_lines, tr[t].claude_session_id, tr[t].lines)
    /\ tr' = [tr EXCEPT ![t] = ClosedTr]
    /\ UNCHANGED <<sessions, messages, files, clients, streaming_buffers, conns, assigned, newest, turns,
                   foldVars, mirrorVars>>
    /\ UNCHANGED <<workflow_runs, surface>>

\* delete_many or insert_many raises: `except Exception as e: print(...)` of the
\* finally block swallows it and the handler returns
GatePersistFail(t) ==
    /\ tr[t].pc \in {"persist_delete", "persist_insert"}
    /\ tr' = [tr EXCEPT ![t] = ClosedTr]
    /\ UNCHANGED <<storeVars, files, clients, streaming_buffers, conns, assigned, newest,
                   turns, foldVars, mirrorVars>>
    /\ UNCHANGED <<workflow_runs, surface>>

GateNext ==
    \/ Restart
    \/ \E t \in Transports :
         \/ Connect(t)
         \/ InitSession(t)
         \/ ResumeRead(t)
         \/ ResumeWrite(t)
         \/ ResumeOpen(t)
         \/ LoadHistory(t)
         \/ SessionReady(t)
         \/ Query(t)
         \/ ClientDisconnect(t)
         \/ FirstOpenQuery(t)
         \/ StreamEvent(t)
         \/ StreamFail(t)
         \/ FirstStreamEnd(t)
         \/ FirstCreate(t)
         \/ SendNextSeq(t)
         \/ SaveUser(t)
         \/ IncUser(t)
         \/ SendQuery(t)
         \/ SendStreamEnd(t)
         \/ SaveAssistant(t)
         \/ IncAssistant(t)
         \/ Usage(t)
         \/ Captured(t)
         \/ Complete(t)
         \/ SendError(t)
         \/ Finally(t)
         \/ GatePersistDelete(t)
         \/ GatePersistInsert(t)

Init == GateInit /\ surface = "websocket" /\ StoreEmpty /\ FilesEmpty /\ FoldFrozen /\ MirrorFrozen
Next == GateNext
Spec == Init /\ [][Next]_vars

\* the gateway over a store whose writes can fail
NextFaulty ==
    \/ GateNext
    \/ \E t \in Transports : GatePersistFail(t)
SpecFaulty == Init /\ [][NextFaulty]_vars

(***************************************************************************)
(* WorkspaceService.chat_in_workspace (SpecWorkspace)                      *)
(* The same registry contract served over SSE: every request opens its own *)
(* runtime connection.  sessions, messages and jsonl_lines hold the        *)
(* collections of WorkspaceThreadStore, tr holds one record per request.   *)
(***************************************************************************)
\* update_one(..., {"$set": {"message_count": n}})
update_thread(sess, sid, n) ==
    { IF d.claude_session_id = sid THEN [d EXCEPT !.message_count = n] ELSE d
      : d \in sess }

\* an exception inside chat_in_workspace: caught by its except Exception
WsRaise(r, e) == [r EXCEPT !.pc = "w_error", !.err = e]

\* POST .../chat: get_workspace, then get_thread(thread_id) for a known thread
WsChat(t) ==
    /\ tr[t].pc = "closed"
    /\ turns < MaxTurns
    /\ turns' = turns + 1
    /\ \E thread_id \in {None} \cup KnownIds :
         IF thread_id = None
         THEN /\ assigned # SessionIds
              /\ tr' = [tr EXCEPT ![t].pc = "n_open"]
         ELSE tr' = [tr EXCEPT ![t].pc = "w_restore_read",
                               ![t].claude_session_id = thread_id,
                               ![t].sid = thread_id]
    /\ UNCHANGED <<storeVars, files, clients, streaming_buffers, conns, assigned, newest,
                   foldVars, mirrorVars>>
    /\ UNCHANGED <<workflow_runs, surface>>

\* restore_from_mongodb: lines = await session_store.get_jsonl_lines(session_id)
WsRestoreRead(t) ==
    /\ tr[t].pc = "w_restore_read"
    /\ tr' = [tr EXCEPT ![t].lines = get_jsonl_lines(jsonl_lines, tr[t].sid),
                        ![t].pc = "w_restore_write"]
    /\ UNCHANGED <<storeVars, files, clients, streaming_buffers, conns, assigned, newest, turns,
                   foldVars, mirrorVars>>
    /\ UNCHANGED <<workflow_runs, surface>>

\* restore_from_mongodb: if lines: write_jsonl_file; then get_jsonl_lines and options
WsRestoreWrite(t) ==
    /\ tr[t].pc = "w_restore_write"
    /\ IF tr[t].lines # <<>>
       THEN files' = [files EXCEPT ![tr[t].sid] = write_jsonl_file(@, tr[t].lines)]
       ELSE UNCHANGED files
    /\ tr' = [tr EXCEPT ![t].lines = <<>>, ![t].pc = "w_open"]
    /\ UNCHANGED <<storeVars, clients, streaming_buffers, conns, assigned, newest, turns,
                   foldVars, mirrorVars>>
    /\ UNCHANGED <<workflow_runs, surface>>

\* async with ClaudeSDKClient(options=options) as client, resume=thread_id
WsOpen(t) ==
    /\ tr[t].pc = "w_open"
    /\ conns' = [conns EXCEPT ![tr[t].sid] = @ + 1]
    /\ tr' = [tr EXCEPT ![t].conn = tr[t].sid, ![t].pc = "w_next_seq"]
    /\ UNCHANGED <<storeVars, files, clients, streaming_buffers, assigned, newest, turns,
                   foldVars, mirrorVars>>
    /\ UNCHANGED <<workflow_runs, surface>>

\* user_seq = await self.workspace_thread_store.get_next_sequence(thread_id)
WsNextSeq(t) ==
    /\ tr[t].pc = "w_next_seq"
    /\ tr' = [tr EXCEPT ![t].seq = get_next_sequence(messages, tr[t].sid),
                        ![t].pc = "w_save_user"]
    /\ UNCHANGED <<storeVars, files, clients, streaming_buffers, conns, assigned, newest, turns,
                   foldVars, mirrorVars>>
    /\ UNCHANGED <<workflow_runs, surface>>

\* await save_message(user_msg), resumed thread
WsSaveUser(t) ==
    /\ tr[t].pc = "w_save_user"
    /\ IF DuplicateMessageKey(messages, tr[t].sid, tr[t].seq)
       THEN /\ tr' = [tr EXCEPT ![t] = WsRaise(@, "DuplicateKeyError: messages")]
            /\ UNCHANGED messages
       ELSE /\ messages' = save_message(messages,
                              MessageDoc(tr[t].sid, tr[t].seq, "user", Prompt))
            /\ tr' = [tr EXCEPT ![t].pc = "w_inc_user"]
    /\ UNCHANGED <<jsonl_lines, sessions, files, clients, streaming_buffers, conns, assigned, newest, turns,
                   foldVars, mirrorVars>>
    /\ UNCHANGED <<workflow_runs, surface>>

\* await increment_message_count(thread_id) after the user message
WsIncUser(t) ==
    /\ tr[t].pc = "w_inc_user"
    /\ sessions' = increment_message_count(sessions, tr[t].sid)
    /\ tr' = [tr EXCEPT ![t].pc = "w_query"]
    /\ UNCHANGED <<jsonl_lines, messages, files, clients, streaming_buffers, conns, assigned, newest, turns,
                   foldVars, mirrorVars>>
    /\ UNCHANGED <<workflow_runs, surface>>

\* await client.query(user_input): the runtime extends its log
WsQuery(t) ==
    /\ tr[t].pc = "w_query"
    /\ LET s == tr[t].conn
           grown == File(files[s].data \o <<"b", NL>>)
       IN  IF Len(grown.data) <= MaxFileLen
           THEN files' = [files EXCEPT ![s] = grown]
           ELSE UNCHANGED files
    /\ tr' = [tr EXCEPT ![t].pc = "w_stream"]
    /\ UNCHANGED <<storeVars, clients, streaming_buffers, conns, assigned, newest, turns,
                   foldVars, mirrorVars>>
    /\ UNCHANGED <<workflow_runs, surface>>

\* new thread: async with ClaudeSDKClient(options_new); await client.query(user_input);
\* the runtime names the session, starts its log, and its first message may carry the id
WsNewOpenQuery(t) ==
    /\ tr[t].pc = "n_open"
    /\ assigned # SessionIds
    /\ LET s == CHOOSE x \in SessionIds \ assigned :
                  \A y \in SessionIds \ assigned : x = "s1" \/ y # "s1"
       IN  /\ assigned' = assigned \cup {s}
           /\ conns' = [conns EXCEPT ![s] = @ + 1]
           /\ files' = [files EXCEPT ![s] = File(<<"a", NL>>)]
           /\ \E reported \in BOOLEAN :
                tr' = [tr EXCEPT ![t].conn = s,
                                 ![t].pc = IF reported THEN "n_create" ELSE "n_stream"]
    /\ UNCHANGED <<storeVars, clients, streaming_buffers, newest, turns,
                   foldVars, mirrorVars>>
    /\ UNCHANGED <<workflow_runs, surface>>

\* captured_session_id = message.session_id; await create_thread(thread)
WsNewCreate(t) ==
    /\ tr[t].pc = "n_create"
    /\ IF DuplicateSessionKey(sessions, tr[t].conn)
       THEN /\ tr' = [tr EXCEPT ![t] = WsRaise(@, "DuplicateKeyError: sessions")]
            /\ UNCHANGED sessions
       ELSE /\ sessions' = create_session(sessions, tr[t].conn)
            /\ tr' = [tr EXCEPT ![t].sid = tr[t].conn, ![t].pc = "n_stream"]
    /\ UNCHANGED <<jsonl_lines, messages, files, clients, streaming_buffers, conns, assigned, newest, turns,
                   foldVars, mirrorVars>>
    /\ UNCHANGED <<workflow_runs, surface>>

\* one json message of the response: yielded as an SSE event, accumulated
WsStreamEvent(t) ==
    /\ tr[t].pc \in {"n_stream", "w_stream"}
    /\ tr[t].pos < Len(RuntimeScript)
    /\ tr' = [tr EXCEPT ![t].pos = @ + 1,
                        ![t].blocks = Accumulate(@, RuntimeScript[tr[t].pos + 1])]
    /\ UNCHANGED <<storeVars, files, clients, streaming_buffers, conns, assigned, newest, turns,
                   foldVars, mirrorVars>>
    /\ UNCHANGED <<workflow_runs, surface>>

\* receive_response raises
WsStreamFail(t) ==
    /\ tr[t].pc \in {"n_stream", "w_stream"}
    /\ tr' = [tr EXCEPT ![t] = WsRaise(@, "RuntimeStreamError")]
    /\ UNCHANGED <<storeVars, files, clients, streaming_buffers, conns, assigned, newest, turns,
                   foldVars, mirrorVars>>
    /\ UNCHANGED <<workflow_runs, surface>>

\* the SSE consumer goes away: the generator is closed at a yield, the async with
\* block closes the connection and nothing else of the request runs
WsDisconnect(t) ==
    /\ tr[t].pc \in {"n_stream", "w_stream"}
    /\ tr[t].pos < Len(RuntimeScript)
    /\ conns' = [conns EXCEPT ![tr[t].conn] = @ - 1]
    /\ tr' = [tr EXCEPT ![t] = ClosedTr]
    /\ UNCHANGED <<storeVars, files, clients, streaming_buffers, assigned, newest, turns,
                   foldVars, mirrorVars>>
    /\ UNCHANGED <<workflow_runs, surface>>

\* the response of a resumed thread ends: assistant_seq = await get_next_sequence(...)
WsStreamEnd(t) ==
    /\ tr[t].pc = "w_stream"
    /\ tr[t].pos = Len(RuntimeScript)
    /\ tr' = [tr EXCEPT ![t].seq = get_next_sequence(messages, tr[t].sid),
                        ![t].pc = "w_save_asst"]
    /\ UNCHANGED <<storeVars, files, clients, streaming_buffers, conns, assigned, newest, turns,
                   foldVars, mirrorVars>>
    /\ UNCHANGED <<workflow_runs, surface>>

\* await save_message(assistant_msg), resumed thread
WsSaveAssistant(t) ==
    /\ tr[t].pc = "w_save_asst"
    /\ IF DuplicateMessageKey(messages, tr[t].sid, tr[t].seq)
       THEN /\ tr' = [tr EXCEPT ![t] = WsRaise(@, "DuplicateKeyError: messages")]
            /\ UNCHANGED messages
       ELSE /\ messages' = save_message(messages,
                              MessageDoc(tr[t].sid, tr[t].seq, "assistant", tr[t].blocks))
            /\ tr' = [tr EXCEPT ![t].pc = "w_inc_asst"]
    /\ UNCHANGED <<jsonl_lines, sessions, files, clients, streaming_buffers, conns, assigned, newest, turns,
                   foldVars, mirrorVars>>
    /\ UNCHANGED <<workflow_runs, surface>>

\* await increment_message_count(thread_id) after the assistant message
WsIncAssistant(t) ==
    /\ tr[t].pc = "w_inc_asst"
    /\ sessions' = increment_message_count(sessions, tr[t].sid)
    /\ tr' = [tr EXCEPT ![t].pc = "w_exit"]
    /\ UNCHANGED <<jsonl_lines, messages, files, clients, streaming_buffers, conns, assigned, newest, turns,
                   foldVars, mirrorVars>>
    /\ UNCHANGED <<workflow_runs, surface>>

\* the response of a new thread ends: if captured_session_id: save the user message
\* at sequence 0
WsNewSaveUser(t) ==
    /\ tr[t].pc = "n_stream"
    /\ tr[t].pos = Len(RuntimeScript)
    /\ IF tr[t].sid = None
       THEN /\ tr' = [tr EXCEPT ![t].pc = "w_exit"]
            /\ UNCHANGED messages
       ELSE IF DuplicateMessageKey(messages, tr[t].sid, 0)
       THEN /\ tr' = [tr EXCEPT ![t] = WsRaise(@, "DuplicateKeyError: messages")]
            /\ UNCHANGED messages
       ELSE /\ messages' = save_message(messages, MessageDoc(tr[t].sid, 0, "user", Prompt))
            /\ tr' = [tr EXCEPT ![t].seq = 1, ![t].pc = "n_save_asst"]
    /\ UNCHANGED <<jsonl_lines, sessions, files, clients, streaming_buffers, conns, assigned, newest, turns,
                   foldVars, mirrorVars>>
    /\ UNCHANGED <<workflow_runs, surface>>

\* new thread: await save_message(assistant_msg) at sequence 1
WsNewSaveAssistant(t) ==
    /\ tr[t].pc = "n_save_asst"
    /\ IF DuplicateMessageKey(messages, tr[t].sid, 1)
       THEN /\ tr' = [tr EXCEPT ![t] = WsRaise(@, "DuplicateKeyError: messages")]
            /\ UNCHANGED messages
       ELSE /\ messages' = save_message(messages,
                              MessageDoc(tr[t].sid, 1, "assistant", tr[t].blocks))
            /\ tr' = [tr EXCEPT ![t].pc = "n_set_count"]
    /\ UNCHANGED <<jsonl_lines, sessions, files, clients, streaming_buffers, conns, assigned, newest, turns,
                   foldVars, mirrorVars>>
    /\ UNCHANGED <<workflow_runs, surface>>

\* new thread: await update_thread(captured_session_id, {"message_count": 2})
WsNewSetCount(t) ==
    /\ tr[t].pc = "n_set_count"
    /\ sessions' = update_thread(sessions, tr[t].sid, 2)
    /\ tr' = [tr EXCEPT ![t].pc = "w_exit"]
    /\ UNCHANGED <<jsonl_lines, messages, files, clients, streaming_buffers, conns, assigned, newest, turns,
                   foldVars, mirrorVars>>
    /\ UNCHANGED <<workflow_runs, surface>>

\* the async with block ends: the connection is closed; persist_to_mongodb up to its
\* first await (only `if captured_session_id` for a new thread)
WsExit(t) ==
    /\ tr[t].pc = "w_exit"
    /\ conns' = [conns EXCEPT ![tr[t].conn] = @ - 1]
    /\ LET lines == IF tr[t].sid = None THEN <<>>
                    ELSE read_jsonl_file(files[tr[t].sid])
       IN  tr' = [tr EXCEPT ![t] =
                    IF lines = <<>> THEN ClosedTr
                    ELSE [@ EXCEPT !.lines = lines, !.conn = None,
                                   !.pc = "w_persist_delete"]]
    /\ UNCHANGED <<storeVars, files, clients, streaming_buffers, assigned, newest, turns,
                   foldVars, mirrorVars>>
    /\ UNCHANGED <<workflow_runs, surface>>

\* save_jsonl_lines: await self.jsonl_lines.delete_many(...)
WsPersistDelete(t) ==
    /\ tr[t].pc = "w_persist_delete"
    /\ jsonl_lines' = delete_jsonl_lines(jsonl_lines, tr[t].sid)
    /\ tr' = [tr EXCEPT ![t].pc = "w_persist_insert"]
    /\ UNCHANGED <<sessions, messages, files, clients, streaming_buffers, conns, assigned, newest, turns,
                   foldVars, mirrorVars>>
    /\ UNCHANGED <<workflow_runs, surface>>

\* save_jsonl_lines: await self.jsonl_lines.insert_many(documents); the complete
\* event is sent, or the error event when insert_many raises, and the request ends
WsPersistInsert(t) ==
    /\ tr[t].pc = "w_persist_insert"
    /\ jsonl_lines' = insert_jsonl_lines(jsonl_lines, tr[t].sid, tr[t].lines)
    /\ tr' = [tr EXCEPT ![t] = ClosedTr]
    /\ UNCHANGED <<sessions, messages, files, clients, streaming_buffers, conns, assigned, newest, turns,
                   foldVars, mirrorVars>>
    /\ UNCHANGED <<workflow_runs, surface>>

\* the exception leaves the async with block, which closes the connection;
\* except Exception sends the error event and the request ends
WsError(t) ==
    /\ tr[t].pc = "w_error"
    /\ conns' = [conns EXCEPT ![tr[t].conn] = @ - 1]
    /\ tr' = [tr EXCEPT ![t] = ClosedTr]
    /\ UNCHANGED <<storeVars, files, clients, streaming_buffers, assigned, newest, turns,
                   foldVars, mirrorVars>>
    /\ UNCHANGED <<workflow_runs, surface>>

WsNext ==
    \E t \in Transports :
        \/ WsChat(t)
        \/ WsRestoreRead(t)
        \/ WsRestoreWrite(t)
        \/ WsOpen(t)
        \/ WsNextSeq(t)
        \/ WsSaveUser(t)
        \/ WsIncUser(t)
        \/ WsQuery(t)
        \/ WsNewOpenQuery(t)
        \/ WsNewCreate(t)
        \/ WsStreamEvent(t)
        \/ WsStreamFail(t)
        \/ WsDisconnect(t)
        \/ WsStreamEnd(t)
        \/ WsSaveAssistant(t)
        \/ WsIncAssistant(t)
        \/ WsNewSaveUser(t)
        \/ WsNewSaveAssistant(t)
        \/ WsNewSetCount(t)
        \/ WsExit(t)
        \/ WsPersistDelete(t)
        \/ WsPersistInsert(t)
        \/ WsError(t)

InitWorkspace == GateInit /\ surface = "workspace" /\ StoreEmpty /\ FilesEmpty /\ FoldFrozen /\ MirrorFrozen
NextWorkspace == WsNext
SpecWorkspace == InitWorkspace /\ [][NextWorkspace]_vars

(***************************************************************************)
(* SessionRegistry teardown: AgentManager.cleanup_client                   *)
(* tr[t] is a caller of cleanup_client: "closed" when it is outside a call *)
(* and "cleanup_exit" while it awaits client.__aexit__.  turns counts the  *)
(* calls.  The registry starts from any cache the gateway can leave behind.*)
(***************************************************************************)
\* a bug: the whole cache is dropped
pop_all(cl, s) == [x \in SessionIds |-> None]

\* self.clients.pop(claude_session_id)
pop(cl, s) == [cl EXCEPT ![s] = None]

\* if claude_session_id in self.streaming_buffers: del self.streaming_buffers[...]
del_buffer(bufs, s) == [bufs EXCEPT ![s] = FALSE]

\* a cache entry holds a connection that resumes its own id; the connections of
\* a cached id are open; uncached connections may be left open as well
RegistryInit ==
    /\ clients \in { f \in [SessionIds -> SessionIds \cup {None}] :
                        \A s \in SessionIds : f[s] \in {s, None} }
    /\ conns \in { g \in [SessionIds -> 0..MaxConns] :
                      \A s \in SessionIds : clients[s] # None => g[s] >= 1 }
    /\ streaming_buffers = [s \in SessionIds |-> clients[s] # None]
    /\ tr = [t \in Transports |-> ClosedTr]
    /\ assigned = {}
    /\ newest = None
    /\ turns = 0

\* cleanup_client(s) up to its await: a cached id is popped and the caller waits
\* for __aexit__; on an uncached id the call runs to its end without an await
CleanupClient(t) ==
    /\ tr[t].pc = "closed"
    /\ turns < MaxTurns
    /\ turns' = turns + 1
    /\ \E s \in SessionIds :
         IF clients[s] # None
         THEN /\ clients' = pop(clients, s)
              /\ tr' = [tr EXCEPT ![t] = [ClosedTr EXCEPT !.pc = "cleanup_exit",
                                                           !.sid = s,
                                                           !.conn = clients[s]]]
              /\ UNCHANGED streaming_buffers
         ELSE /\ streaming_buffers' = del_buffer(streaming_buffers, s)
              /\ UNCHANGED <<clients, tr>>
    /\ UNCHANGED <<storeVars, files, conns, assigned, newest,
                   foldVars, mirrorVars>>
    /\ UNCHANGED <<workflow_runs, surface>>

\* await client.__aexit__(None, None, None) returns: the connection is closed;
\* then the buffer of the id is deleted and the call returns
CleanupExit(t) ==
    /\ tr[t].pc = "cleanup_exit"
    /\ conns' = [conns EXCEPT ![tr[t].conn] = @ - 1]
    /\ streaming_buffers' = del_buffer(streaming_buffers, tr[t].sid)
    /\ tr' = [tr EXCEPT ![t] = ClosedTr]
    /\ UNCHANGED <<storeVars, files, clients, assigned, newest, turns,
                   foldVars, mirrorVars>>
    /\ UNCHANGED <<workflow_runs, surface>>

\* lifespan after `yield`: the five stores are closed and the application is
\* down; t is the task that runs the lifespan
Shutdown(t) ==
    /\ tr[t].pc = "closed"
    /\ \A u \in Transports : tr[u].pc # "shutdown"
    /\ tr' = [tr EXCEPT ![t] = [ClosedTr EXCEPT !.pc = "shutdown"]]
    /\ UNCHANGED <<storeVars, files, clients, streaming_buffers, conns, assigned, newest,
                   turns, foldVars, mirrorVars>>
    /\ UNCHANGED <<workflow_runs, surface>>

InitRegistry == RegistryInit /\ surface = None /\ StoreEmpty /\ FilesEmpty /\ FoldFrozen /\ MirrorFrozen
NextRegistry ==
    \E t \in Transports :
        \/ CleanupClient(t)
        \/ CleanupExit(t)
        \/ Shutdown(t)
SpecRegistry == InitRegistry /\ [][NextRegistry]_vars

(***************************************************************************)
(* ConversationLogStore: SessionStore (ulam) and WorkspaceThreadStore      *)
(* called directly.  tr[t] is a caller holding one store object: its       *)
(* class, its position inside a call, and the operation, session id and    *)
(* result of its last call.  One action per awaited database command.      *)
(* turns counts the calls.  ghost[t] only observes whether another caller  *)
(* inserted into the session that t is deleting.                           *)
(***************************************************************************)
StoreClasses == {"SessionStore", "WorkspaceThreadStore"}
Costs == 0..MaxCost
Tokens == 0..1
Seqs == 0..2
LineLists == { <<"a">>, <<"b">>, <<"a", "b">> }

StoreCaller(k) ==
    [pc |-> "idle", store |-> k, no |-> FALSE, op |-> None, sid |-> None, arg |-> None,
     ret |-> None, raised |-> None]

\* caller r starts its next call: the mark flips, so two calls in a row with
\* the same arguments and the same result are still two steps of the caller
Called(r) == [r EXCEPT !.no = ~r.no]

\* the call op(sid) of caller r has returned ret
Returned(r, op, sid, ret) ==
    [r EXCEPT !.pc = "idle", !.op = op, !.sid = sid, !.arg = None, !.ret = ret,
              !.raised = None]

\* the call op(sid) of caller r has raised err
Raising(r, op, sid, err) ==
    [r EXCEPT !.pc = "idle", !.op = op, !.sid = sid, !.arg = None, !.ret = None,
              !.raised = err]

\* SessionStore.update_session_usage: {"$inc": cost and tokens}
ulam_update_session_usage(sess, sid, cost_usd, input_tokens, output_tokens) ==
    { IF d.claude_session_id = sid
      THEN [d EXCEPT !.total_cost_usd = @ + cost_usd,
                     !.total_input_tokens = @ + input_tokens,
                     !.total_output_tokens = @ + output_tokens]
      ELSE d
      : d \in sess }

\* find_one({"claude_session_id": sid})
get_session(sess, sid) ==
    IF \E d \in sess : d.claude_session_id = sid
    THEN CHOOSE d \in sess : d.claude_session_id = sid
    ELSE None

\* a bug: the messages of the session are kept
delete_messages_none(msgs, sid) == msgs

\* a bug: delete_many without the session filter
delete_messages_all(msgs, sid) == {}

\* self.messages.delete_many({"claude_session_id": sid})
delete_messages(msgs, sid) == msgs \ MessagesOf(msgs, sid)

\* self.threads.delete_one({"claude_session_id": sid})
delete_one(sess, sid) == { d \in sess : d.claude_session_id # sid }

\* observation: an insert for session sid by caller t falls into the running
\* delete of every other caller that is deleting sid
Disturb(t, sid) ==
    ghost' = [u \in Transports |->
                ghost[u] \/ (/\ u # t
                             /\ tr[u].pc \in {"delete_lines", "delete_doc"}
                             /\ tr[u].sid = sid)]

StoreInit ==
    /\ \E k \in StoreClasses : tr = [t \in Transports |-> StoreCaller(k)]
    /\ ghost = [t \in Transports |-> FALSE]
    /\ turns = 0
    /\ mpc = "idle"
    /\ mlines = <<>>
    /\ clients = <<>>
    /\ streaming_buffers = <<>>
    /\ conns = <<>>
    /\ assigned = {}
    /\ newest = None

\* create_session / create_thread: insert_one
StCreate(t) ==
    /\ tr[t].pc = "idle"
    /\ turns < MaxOps
    /\ turns' = turns + 1
    /\ \E sid \in SessionIds :
         IF DuplicateSessionKey(sessions, sid)
         THEN /\ tr' = [tr EXCEPT ![t] = Raising(Called(@), "create", sid, "DuplicateKeyError")]
              /\ UNCHANGED sessions
         ELSE /\ sessions' = create_session(sessions, sid)
              /\ tr' = [tr EXCEPT ![t] = Returned(Called(@), "create", sid, SessionDoc(sid))]
    /\ UNCHANGED <<jsonl_lines, messages, files, clients, streaming_buffers, conns,
                   assigned, newest, foldVars, mirrorVars>>
    /\ UNCHANGED <<workflow_runs, surface>>

\* get_session / get_thread: find_one
StGet(t) ==
    /\ tr[t].pc = "idle"
    /\ turns < MaxOps
    /\ turns' = turns + 1
    /\ \E sid \in SessionIds :
         tr' = [tr EXCEPT ![t] = Returned(Called(@), "get", sid, get_session(sessions, sid))]
    /\ UNCHANGED <<storeVars, files, clients, streaming_buffers, conns,
                   assigned, newest, foldVars, mirrorVars>>
    /\ UNCHANGED <<workflow_runs, surface>>

\* save_message: insert_one
StSaveMessage(t) ==
    /\ tr[t].pc = "idle"
    /\ turns < MaxOps
    /\ turns' = turns + 1
    /\ \E sid \in SessionIds, seq \in Seqs :
         IF DuplicateMessageKey(messages, sid, seq)
         THEN /\ tr' = [tr EXCEPT ![t] = Raising(Called(@), "save", sid, "DuplicateKeyError")]
              /\ UNCHANGED <<messages, ghost>>
         ELSE /\ messages' = save_message(messages, MessageDoc(sid, seq, "user", Prompt))
              /\ tr' = [tr EXCEPT ![t] = Returned(Called(@), "save", sid, seq)]
              /\ Disturb(t, sid)
    /\ UNCHANGED <<jsonl_lines, sessions, files, clients, streaming_buffers, conns,
                   assigned, newest, foldVars, mpc, mlines>>
    /\ UNCHANGED <<workflow_runs, surface>>

\* get_next_sequence: find_one sorted by sequence descending
StNextSequence(t) ==
    /\ tr[t].pc = "idle"
    /\ turns < MaxOps
    /\ turns' = turns + 1
    /\ \E sid \in SessionIds :
         tr' = [tr EXCEPT ![t] =
                  Returned(Called(@), "next", sid, get_next_sequence(messages, sid))]
    /\ UNCHANGED <<storeVars, files, clients, streaming_buffers, conns,
                   assigned, newest, foldVars, mirrorVars>>
    /\ UNCHANGED <<workflow_runs, surface>>

\* increment_message_count: update_one
StIncrement(t) ==
    /\ tr[t].pc = "idle"
    /\ turns < MaxOps
    /\ turns' = turns + 1
    /\ \E sid \in SessionIds :
         /\ sessions' = increment_message_count(sessions, sid)
         /\ tr' = [tr EXCEPT ![t] = Returned(Called(@), "increment", sid, None)]
    /\ UNCHANGED <<jsonl_lines, messages, files, clients, streaming_buffers, conns,
                   assigned, newest, foldVars, mirrorVars>>
    /\ UNCHANGED <<workflow_runs, surface>>

\* update_session_usage / update_thread_usage: update_one
StUpdateUsage(t) ==
    /\ tr[t].pc = "idle"
    /\ turns < MaxOps
    /\ turns' = turns + 1
    /\ \E sid \in SessionIds, cost_usd \in Costs, input_tokens, output_tokens \in Tokens :
         /\ sessions' =
              IF tr[t].store = "SessionStore"
              THEN ulam_update_session_usage(sessions, sid, cost_usd,
                                             input_tokens, output_tokens)
              ELSE update_session_usage(sessions, sid, cost_usd,
                                        input_tokens, output_tokens)
         /\ tr' = [tr EXCEPT ![t] =
                     [Returned(Called(@), "usage", sid, None) EXCEPT
                        !.arg = <<cost_usd, input_tokens, output_tokens>>]]
    /\ UNCHANGED <<jsonl_lines, messages, files, clients, streaming_buffers, conns,
                   assigned, newest, foldVars, mirrorVars>>
    /\ UNCHANGED <<workflow_runs, surface>>

\* WorkspaceThreadStore.save_jsonl_lines: delete_many
StSaveLinesDelete(t) ==
    /\ tr[t].pc = "idle"
    /\ tr[t].store = "WorkspaceThreadStore"
    /\ turns < MaxOps
    /\ turns' = turns + 1
    /\ \E sid \in SessionIds, lines \in LineLists :
         /\ jsonl_lines' = delete_jsonl_lines(jsonl_lines, sid)
         /\ tr' = [tr EXCEPT ![t] =
                     [Called(@) EXCEPT !.pc = "lines_insert", !.op = "save_lines", !.sid = sid,
                               !.arg = lines, !.ret = None, !.raised = None]]
    /\ UNCHANGED <<sessions, messages, files, clients, streaming_buffers, conns,
                   assigned, newest, foldVars, mirrorVars>>
    /\ UNCHANGED <<workflow_runs, surface>>

\* WorkspaceThreadStore.save_jsonl_lines: insert_many
StSaveLinesInsert(t) ==
    /\ tr[t].pc = "lines_insert"
    /\ jsonl_lines' = insert_jsonl_lines(jsonl_lines, tr[t].sid, tr[t].arg)
    /\ tr' = [tr EXCEPT ![t] =
                IF BulkWriteError(jsonl_lines, tr[t].sid, tr[t].arg)
                THEN Raising(@, "save_lines", tr[t].sid, "BulkWriteError")
                ELSE Returned(@, "save_lines", tr[t].sid, None)]
    /\ Disturb(t, tr[t].sid)
    /\ UNCHANGED <<sessions, messages, files, clients, streaming_buffers, conns,
                   assigned, newest, turns, foldVars, mpc, mlines>>
    /\ UNCHANGED <<workflow_runs, surface>>

\* delete_session / delete_thread: self.messages.delete_many
StDeleteMessages(t) ==
    /\ tr[t].pc = "idle"
    /\ turns < MaxOps
    /\ turns' = turns + 1
    /\ \E sid \in SessionIds :
         /\ messages' = delete_messages(messages, sid)
         /\ tr' = [tr EXCEPT ![t] =
                     [Called(@) EXCEPT !.pc = IF tr[t].store = "WorkspaceThreadStore"
                                      THEN "delete_lines" ELSE "delete_doc",
                               !.op = "delete", !.sid = sid, !.arg = None, !.ret = None,
                               !.raised = None]]
    /\ ghost' = [ghost EXCEPT ![t] = FALSE]
    /\ UNCHANGED <<jsonl_lines, sessions, files, clients, streaming_buffers, conns,
                   assigned, newest, foldVars, mpc, mlines>>
    /\ UNCHANGED <<workflow_runs, surface>>

\* delete_thread: await self.delete_jsonl_lines(claude_session_id)
StDeleteLines(t) ==
    /\ tr[t].pc = "delete_lines"
    /\ jsonl_lines' = delete_jsonl_lines(jsonl_lines, tr[t].sid)
    /\ tr' = [tr EXCEPT ![t].pc = "delete_doc"]
    /\ UNCHANGED <<sessions, messages, files, clients, streaming_buffers, conns,
                   assigned, newest, turns, foldVars, mirrorVars>>
    /\ UNCHANGED <<workflow_runs, surface>>

\* delete_session / delete_thread: delete_one; return result.deleted_count > 0
StDeleteDoc(t) ==
    /\ tr[t].pc = "delete_doc"
    /\ sessions' = delete_one(sessions, tr[t].sid)
    /\ tr' = [tr EXCEPT ![t] =
                Returned(@, "delete", tr[t].sid,
                         \E d \in sessions : d.claude_session_id = tr[t].sid)]
    /\ UNCHANGED <<jsonl_lines, messages, files, clients, streaming_buffers, conns,
                   assigned, newest, turns, foldVars, mirrorVars>>
    /\ UNCHANGED <<workflow_runs, surface>>

InitStore == StoreInit /\ surface = None /\ StoreEmpty /\ FilesEmpty /\ FoldFrozen
NextStore ==
    \E t \in Transports :
        \/ StCreate(t)
        \/ StGet(t)
        \/ StSaveMessage(t)
        \/ StNextSequence(t)
        \/ StIncrement(t)
        \/ StUpdateUsage(t)
        \/ StSaveLinesDelete(t)
        \/ StSaveLinesInsert(t)
        \/ StDeleteMessages(t)
        \/ StDeleteLines(t)
        \/ StDeleteDoc(t)
SpecStore == InitStore /\ [][NextStore]_vars

(***************************************************************************)
(* WorkflowService.execute_workflow behind POST /workflows/{id}/execute    *)
(* One action per await or yield of the generator.  The generator runs in  *)
(* the task of the StreamingResponse that consumes it; when the client     *)
(* goes away that task is cancelled and the generator is closed where it   *)
(* stands.                                                                 *)
(***************************************************************************)
Skills == {"known", "unknown"}

\* run_id = str(uuid.uuid4()): not the id of any stored run
Uuid4 == 0

\* the generator before its first step
WorkflowCaller ==
    [pc |-> "idle", skill_id |-> None, run_id |-> Uuid4, events |-> <<>>,
     client |-> FALSE, connected |-> TRUE]

\* WorkflowRun(skill_id=..., status="running") as stored by insert_one, which
\* gives it an ObjectId no other run has
WorkflowRun(runs, skill_id) ==
    [id |-> Cardinality(runs) + 1, skill_id |-> skill_id, status |-> "running"]

create_workflow_run(runs, skill_id) == runs \cup { WorkflowRun(runs, skill_id) }

\* update_one({"_id": ObjectId(run_id)}, {"$set": updates}); a run_id that is
\* no ObjectId matches nothing
update_workflow_run(runs, run_id, status) ==
    { IF r.id = run_id THEN [r EXCEPT !.status = status] ELSE r : r \in runs }

WorkflowInit ==
    /\ tr = [t \in Transports |-> WorkflowCaller]
    /\ turns = 0
    /\ mpc = "idle"
    /\ mlines = <<>>
    /\ ghost = NoGhost
    /\ clients = <<>>
    /\ streaming_buffers = <<>>
    /\ conns = <<>>
    /\ assigned = {}
    /\ newest = None

\* POST /workflows/{skill_id}/execute: the generator starts and reaches
\* `await self.workflow_store.create_workflow_run(workflow_run)`
WfDispatch(t) ==
    /\ tr[t].pc \in {"idle", "done"}
    /\ turns < MaxTurns
    /\ turns' = turns + 1
    /\ \E skill_id \in Skills :
         tr' = [tr EXCEPT ![t] = [WorkflowCaller EXCEPT !.pc = "create",
                                                        !.skill_id = skill_id]]
    /\ UNCHANGED <<surface, workflow_runs, storeVars, files, clients, streaming_buffers, conns,
                   assigned, newest, foldVars, mirrorVars>>

\* create_workflow_run returns; run_id = created_run.id
WfCreate(t) ==
    /\ tr[t].pc = "create"
    /\ workflow_runs' = create_workflow_run(workflow_runs, tr[t].skill_id)
    /\ tr' = [tr EXCEPT ![t].pc = "yield_start",
                        ![t].run_id = WorkflowRun(workflow_runs, tr[t].skill_id).id]
    /\ UNCHANGED <<surface, storeVars, files, clients, streaming_buffers, conns, assigned,
                   newest, turns, foldVars, mirrorVars>>

\* create_workflow_run raises: run_id is still the uuid4 string
WfCreateFail(t) ==
    /\ tr[t].pc = "create"
    /\ tr' = [tr EXCEPT ![t].pc = "except"]
    /\ UNCHANGED <<surface, workflow_runs, storeVars, files, clients, streaming_buffers, conns,
                   assigned, newest, turns, foldVars, mirrorVars>>

\* yield the start event; resumed, the generator awaits get_skill
WfYieldStart(t) ==
    /\ tr[t].pc = "yield_start"
    /\ tr' = [tr EXCEPT ![t].pc = "get_skill", ![t].events = Append(@, "start")]
    /\ UNCHANGED <<surface, workflow_runs, storeVars, files, clients, streaming_buffers, conns,
                   assigned, newest, turns, foldVars, mirrorVars>>

\* skill = await self.skill_store.get_skill(skill_id); if not skill: ...
WfGetSkill(t) ==
    /\ tr[t].pc = "get_skill"
    /\ tr' = [tr EXCEPT ![t].pc = IF tr[t].skill_id = "known" THEN "open"
                                  ELSE "yield_unknown"]
    /\ UNCHANGED <<surface, workflow_runs, storeVars, files, clients, streaming_buffers, conns,
                   assigned, newest, turns, foldVars, mirrorVars>>

\* unknown skill: yield the error event
WfYieldUnknown(t) ==
    /\ tr[t].pc = "yield_unknown"
    /\ tr' = [tr EXCEPT ![t].pc = "update_unknown", ![t].events = Append(@, "error")]
    /\ UNCHANGED <<surface, workflow_runs, storeVars, files, clients, streaming_buffers, conns,
                   assigned, newest, turns, foldVars, mirrorVars>>

\* unknown skill: update_workflow_run(run_id, {"status": "failed", ...}); return
WfUpdateUnknown(t) ==
    /\ tr[t].pc = "update_unknown"
    /\ workflow_runs' = update_workflow_run(workflow_runs, tr[t].run_id, "failed")
    /\ tr' = [tr EXCEPT ![t].pc = "done"]
    /\ UNCHANGED <<surface, storeVars, files, clients, streaming_buffers, conns, assigned,
                   newest, turns, foldVars, mirrorVars>>

\* async with ClaudeSDKClient(options=options) as client
WfOpen(t) ==
    /\ tr[t].pc = "open"
    /\ tr' = [tr EXCEPT ![t].pc = "query", ![t].client = TRUE]
    /\ UNCHANGED <<surface, workflow_runs, storeVars, files, clients, streaming_buffers, conns,
                   assigned, newest, turns, foldVars, mirrorVars>>

\* await client.query(query)
WfQuery(t) ==
    /\ tr[t].pc = "query"
    /\ tr' = [tr EXCEPT ![t].pc = "receive"]
    /\ UNCHANGED <<surface, workflow_runs, storeVars, files, clients, streaming_buffers, conns,
                   assigned, newest, turns, foldVars, mirrorVars>>

\* async for message in client.receive_response(): yield its stream message
WfStreamEvent(t) ==
    /\ tr[t].pc = "receive"
    /\ Len(tr[t].events) < MaxEvents
    /\ tr' = [tr EXCEPT ![t].events = Append(@, "message")]
    /\ UNCHANGED <<surface, workflow_runs, storeVars, files, clients, streaming_buffers, conns,
                   assigned, newest, turns, foldVars, mirrorVars>>

\* the response ends; the async with block exits and closes the client
WfStreamEnd(t) ==
    /\ tr[t].pc = "receive"
    /\ tr' = [tr EXCEPT ![t].pc = "copy", ![t].client = FALSE]
    /\ UNCHANGED <<surface, workflow_runs, storeVars, files, clients, streaming_buffers, conns,
                   assigned, newest, turns, foldVars, mirrorVars>>

\* the runtime fails while the client is opened, queried or read, or
\* copy_artifacts_from_temp_folder raises: control passes to `except Exception`
WfRuntimeFail(t) ==
    /\ tr[t].pc \in {"open", "query", "receive", "copy"}
    /\ tr' = [tr EXCEPT ![t].pc = "except", ![t].client = FALSE]
    /\ UNCHANGED <<surface, workflow_runs, storeVars, files, clients, streaming_buffers, conns,
                   assigned, newest, turns, foldVars, mirrorVars>>

\* artifact_paths = copy_artifacts_from_temp_folder(temp_path, run_id)
WfCopy(t) ==
    /\ tr[t].pc = "copy"
    /\ tr' = [tr EXCEPT ![t].pc = "update_completed"]
    /\ UNCHANGED <<surface, workflow_runs, storeVars, files, clients, streaming_buffers, conns,
                   assigned, newest, turns, foldVars, mirrorVars>>

\* update_workflow_run(run_id, {"status": "completed", ...})
WfUpdateCompleted(t) ==
    /\ tr[t].pc = "update_completed"
    /\ workflow_runs' = update_workflow_run(workflow_runs, tr[t].run_id, "completed")
    /\ tr' = [tr EXCEPT ![t].pc = "yield_complete"]
    /\ UNCHANGED <<surface, storeVars, files, clients, streaming_buffers, conns, assigned,
                   newest, turns, foldVars, mirrorVars>>

\* yield the completion event; the generator ends
WfYieldComplete(t) ==
    /\ tr[t].pc = "yield_complete"
    /\ tr' = [tr EXCEPT ![t].pc = "done", ![t].events = Append(@, "complete")]
    /\ UNCHANGED <<surface, workflow_runs, storeVars, files, clients, streaming_buffers, conns,
                   assigned, newest, turns, foldVars, mirrorVars>>

\* except Exception: update_workflow_run(run_id, {"status": "failed", ...})
WfExcept(t) ==
    /\ tr[t].pc = "except"
    /\ workflow_runs' = update_workflow_run(workflow_runs, tr[t].run_id, "failed")
    /\ tr' = [tr EXCEPT ![t].pc = "yield_error"]
    /\ UNCHANGED <<surface, storeVars, files, clients, streaming_buffers, conns, assigned,
                   newest, turns, foldVars, mirrorVars>>

\* an except block that logs the failure and yields nothing
WfYieldError_silent(t) ==
    /\ tr[t].pc = "yield_error"
    /\ tr' = [tr EXCEPT ![t].pc = "done"]
    /\ UNCHANGED <<surface, workflow_runs, storeVars, files, clients, streaming_buffers, conns,
                   assigned, newest, turns, foldVars, mirrorVars>>

\* except Exception: yield the error event; the generator ends
WfYieldError(t) ==
    /\ tr[t].pc = "yield_error"
    /\ tr' = [tr EXCEPT ![t].pc = "done", ![t].events = Append(@, "error")]
    /\ UNCHANGED <<surface, workflow_runs, storeVars, files, clients, streaming_buffers, conns,
                   assigned, newest, turns, foldVars, mirrorVars>>

\* the client goes away: the task that consumes the generator is cancelled and
\* the generator is closed at its current await or yield.  CancelledError and
\* GeneratorExit are no Exception, so `except Exception` does not run; an open
\* client is closed by its async with block.
WfDisconnect(t) ==
    /\ tr[t].pc \notin {"idle", "done"}
    /\ tr' = [tr EXCEPT ![t].pc = "done", ![t].client = FALSE, ![t].connected = FALSE]
    /\ UNCHANGED <<surface, workflow_runs, storeVars, files, clients, streaming_buffers, conns,
                   assigned, newest, turns, foldVars, mirrorVars>>

InitWorkflow == WorkflowInit /\ surface = "workflow" /\ StoreEmpty /\ FilesEmpty /\ FoldFrozen
NextWorkflow ==
    \E t \in Transports :
        \/ WfDispatch(t)
        \/ WfCreate(t)
        \/ WfCreateFail(t)
        \/ WfYieldStart(t)
        \/ WfGetSkill(t)
        \/ WfYieldUnknown(t)
        \/ WfUpdateUnknown(t)
        \/ WfOpen(t)
        \/ WfQuery(t)
        \/ WfStreamEvent(t)
        \/ WfStreamEnd(t)
        \/ WfRuntimeFail(t)
        \/ WfCopy(t)
        \/ WfUpdateCompleted(t)
        \/ WfYieldComplete(t)
        \/ WfYieldError(t)
        \/ WfExcept(t)
        \/ WfDisconnect(t)
SpecWorkflow == InitWorkflow /\ [][NextWorkflow]_vars

(***************************************************************************)
(* DELETE /sessions/{id} next to the gateway (SpecDelete)                  *)
(* The route calls SessionStore.delete_session and nothing else: the       *)
(* registry is not told.  One HTTP handler at a time deletes one session.  *)
(***************************************************************************)
DeletedSid == "s1"

\* delete_session: await self.messages.delete_many({"session_id": sid})
RouteDeleteMessages ==
    /\ mpc = "idle"
    /\ turns < MaxTurns
    /\ turns' = turns + 1
    /\ messages' = delete_messages(messages, DeletedSid)
    /\ mpc' = "delete_doc"
    /\ UNCHANGED <<jsonl_lines, sessions, files, clients, streaming_buffers, conns, tr,
                   assigned, newest, foldVars, mlines, ghost>>
    /\ UNCHANGED <<workflow_runs, surface>>

\* delete_session: await self.sessions.delete_one(...); the route answers
RouteDeleteDoc ==
    /\ mpc = "delete_doc"
    /\ sessions' = delete_one(sessions, DeletedSid)
    /\ mpc' = "idle"
    /\ UNCHANGED <<jsonl_lines, messages, files, clients, streaming_buffers, conns, tr,
                   assigned, newest, turns, foldVars, mlines, ghost>>
    /\ UNCHANGED <<workflow_runs, surface>>

NextDelete ==
    \/ GateNext
    \/ RouteDeleteMessages
    \/ RouteDeleteDoc
SpecDelete == Init /\ [][NextDelete]_vars

(***************************************************************************)
(* The three streaming endpoints: a run is served by the websocket of      *)
(* agent_routes, by chat_in_workspace or by execute_workflow               *)
(***************************************************************************)
InitSurfaces == Init \/ InitWorkspace \/ InitWorkflow
NextSurfaces ==
    \/ surface = "websocket" /\ GateNext
    \/ surface = "workspace" /\ WsNext
    \/ surface = "workflow" /\ NextWorkflow
SpecSurfaces == InitSurfaces /\ [][NextSurfaces]_vars

(***************************************************************************)
(* The websocket and chat_in_workspace when the turns of each session run  *)
(* one at a time and no turn fails                                         *)
(***************************************************************************)
\* positions of the websocket handler inside a query turn
GateTurnPcs ==
    {"first_open", "first_stream", "first_create", "captured", "send_next_seq",
     "save_user", "inc_user", "send_query", "send_stream", "save_asst", "inc_asst",
     "usage", "complete", "error"}

\* positions of a websocket handler whose turn is running
RunningPcs == GateTurnPcs \ {"error"}

\* the session on which the handler with locals r is running a turn or an SSE
\* request (None: it runs none, or the session is not known yet)
TurnOn(r) ==
    IF r.pc \in {"closed", "idle", "resume_read", "resume_write", "resume_open",
                 "history", "ready", "error", "finally", "persist_delete",
                 "persist_insert"}
    THEN None ELSE r.sid

\* after the step no two handlers run a turn on the same session
OneAtATime ==
    \A t, u \in Transports :
        (t # u /\ TurnOn(tr'[t]) # None) => TurnOn(tr'[t]) # TurnOn(tr'[u])

\* the step ends the turn of handler t with an exception or with the loss of
\* its client
TurnFails(t) ==
    \/ tr[t].pc \in RunningPcs \cup {"idle"} /\ tr'[t].pc = "error"
    \/ tr[t].pc \in RunningPcs /\ tr'[t].pc = "finally"
    \/ tr'[t].pc = "w_error"
    \/ tr[t].pc \in {"w_stream", "n_stream"} /\ tr'[t].pc = "closed"

SerialStep == OneAtATime /\ \A t \in Transports : ~TurnFails(t)
GateSerial == surface = "websocket" /\ SerialStep
WsSerial == surface = "workspace" /\ SerialStep

InitSerial == Init \/ InitWorkspace
NextSerial ==
    \/ Restart /\ GateSerial
    \/ \E t \in Transports :
         \/ Connect(t) /\ GateSerial
         \/ InitSession(t) /\ GateSerial
         \/ ResumeRead(t) /\ GateSerial
         \/ ResumeWrite(t) /\ GateSerial
         \/ ResumeOpen(t) /\ GateSerial
         \/ LoadHistory(t) /\ GateSerial
         \/ SessionReady(t) /\ GateSerial
         \/ Query(t) /\ GateSerial
         \/ ClientDisconnect(t) /\ GateSerial
         \/ FirstOpenQuery(t) /\ GateSerial
         \/ StreamEvent(t) /\ GateSerial
         \/ FirstStreamEnd(t) /\ GateSerial
         \/ FirstCreate(t) /\ GateSerial
         \/ SendNextSeq(t) /\ GateSerial
         \/ SaveUser(t) /\ GateSerial
         \/ IncUser(t) /\ GateSerial
         \/ SendQuery(t) /\ GateSerial
         \/ SendStreamEnd(t) /\ GateSerial
         \/ SaveAssistant(t) /\ GateSerial
         \/ IncAssistant(t) /\ GateSerial
         \/ Usage(t) /\ GateSerial
         \/ Captured(t) /\ GateSerial
         \/ Complete(t) /\ GateSerial
         \/ Finally(t) /\ GateSerial
         \/ GatePersistDelete(t) /\ GateSerial
         \/ GatePersistInsert(t) /\ GateSerial
         \/ WsChat(t) /\ WsSerial
         \/ WsRestoreRead(t) /\ WsSerial
         \/ WsRestoreWrite(t) /\ WsSerial
         \/ WsOpen(t) /\ WsSerial
         \/ WsNextSeq(t) /\ WsSerial
         \/ WsSaveUser(t) /\ WsSerial
         \/ WsIncUser(t) /\ WsSerial
         \/ WsQuery(t) /\ WsSerial
         \/ WsNewOpenQuery(t) /\ WsSerial
         \/ WsNewCreate(t) /\ WsSerial
         \/ WsStreamEvent(t) /\ WsSerial
         \/ WsStreamEnd(t) /\ WsSerial
         \/ WsSaveAssistant(t) /\ WsSerial
         \/ WsIncAssistant(t) /\ WsSerial
         \/ WsNewSaveUser(t) /\ WsSerial
         \/ WsNewSaveAssistant(t) /\ WsSerial
         \/ WsNewSetCount(t) /\ WsSerial
         \/ WsExit(t) /\ WsSerial
         \/ WsPersistDelete(t) /\ WsSerial
         \/ WsPersistInsert(t) /\ WsSerial
SpecSerial == InitSerial /\ [][NextSerial]_vars

(***************************************************************************)
(* SessionRegistry and ConversationLogStore claims                         *)
(***************************************************************************)
Sequences(s) == { m.doc.sequence : m \in MessagesOf(messages, s) }

KeyStored(s, q) == \E m \in messages : m.doc.session_id = s /\ m.doc.sequence = q

Conflicted(t) ==
    /\ tr[t].pc = "error"
    /\ tr[t].err = "DuplicateKeyError: messages"

\* C1: for every session the sequences of its persisted messages are exactly
\* 0..n-1, n being the number of persisted messages of the session: no gap and
\* no two messages with the same sequence, whatever the interleaving of turns.
C1_SequencesAreGapless ==
    \A s \in SessionIds :
        Sequences(s) = 0 .. (Cardinality(MessagesOf(messages, s)) - 1)

\* two turns of one session raced: one lost the append at the sequence both had
\* read, the other went on, and the session holds three messages or more
C1_Witness ==
    \E t \in Transports :
        /\ Conflicted(t)
        /\ tr[t].seq >= 2
        /\ Cardinality(MessagesOf(messages, tr[t].sid)) >= 3

\* C2: at most one prompt is in flight per session id: two transports are never
\* both between client.query and the end of the response for the same session.
C2_OnePromptInFlight ==
    \A t1, t2 \in Transports :
        (/\ t1 # t2
         /\ tr[t1].pc = "send_stream"
         /\ tr[t2].pc = "send_stream") => tr[t1].sid # tr[t2].sid

\* C3: at most one open runtime connection exists per session id.
C3_OneLiveConnection == \A s \in SessionIds : conns[s] <= 1

\* C4: a save_message for a (session id, sequence) pair that is already stored
\* raises the duplicate key error and leaves the messages collection as it was.
C4_ConflictLeavesStoreUnchanged ==
    [][\A t \in Transports :
          (/\ tr[t].pc \in {"save_user", "save_asst"}
           /\ tr'[t] # tr[t]
           /\ KeyStored(tr[t].sid, tr[t].seq))
          => (/\ messages' = messages
              /\ tr'[t].pc = "error"
              /\ tr'[t].err = "DuplicateKeyError: messages")]_vars

\* an append was refused and exactly one message is stored under its key
C4_Witness ==
    \E t \in Transports :
        /\ Conflicted(t)
        /\ Cardinality({ m \in messages : /\ m.doc.session_id = tr[t].sid
                                          /\ m.doc.sequence = tr[t].seq }) = 1

Quiescent == \A t \in Transports : tr[t].pc = "closed"

\* C5: once no turn is running, the message_count of every session equals the
\* number of persisted messages of that session.
C5_MessageCountMatches ==
    Quiescent =>
        \A d \in sessions :
            d.message_count = Cardinality(MessagesOf(messages, d.claude_session_id))

(***************************************************************************)
(* ProtocolGateway claims                                                  *)
(***************************************************************************)
\* C12: when the response of the runtime fails mid-turn on a bound session, the
\* turn ends as on completion: once the endpoint has sent the error event, an
\* assistant message of the session is stored after the user message of the turn.
C12_FailedStreamStillPersisted ==
    \A t \in Transports :
        (/\ tr[t].pc = "finally"
         /\ tr[t].err = "RuntimeStreamError"
         /\ tr[t].claude_session_id # None)
        => \E m \in MessagesOf(messages, tr[t].sid) :
              m.doc.role = "assistant" /\ m.doc.sequence > tr[t].seq

\* C13: after the error event of a failed turn the transport stays open: the
\* endpoint is back at receiving the next client message.
C13_ErrorKeepsTransportOpen ==
    [][\A t \in Transports :
          (tr[t].pc = "error" /\ tr'[t].pc # "error") => tr'[t].pc = "idle"]_vars

\* C14: a turn whose client disconnected while it was streaming still runs to
\* completion: when the endpoint returns, an assistant message of the session is
\* stored after the user message of the turn.
C14_DisconnectedTurnCompletes ==
    [][\A t \in Transports :
          (/\ tr[t].err = "WebSocketDisconnect"
           /\ tr[t].sid # None
           /\ tr[t].claude_session_id # None
           /\ tr'[t].pc = "closed")
          => \E m \in MessagesOf(messages', tr[t].sid) :
                m.doc.role = "assistant" /\ m.doc.sequence > tr[t].seq]_vars

\* the first query of transport t has completed: the endpoint is about to send
\* session_id_captured
FirstQueryCompleted(t) == tr[t].pc = "captured"

C16_CapturedBeforeDeltas ==
    \A t \in Transports : FirstQueryCompleted(t) => tr[t].pos = 0

\* C17: a query for a session id that has no cached connection fails with
\* "No client found" before any effect: no message is stored, no session document
\* changes, the runtime gets no prompt (its logs are untouched) and the cache and
\* the open connections stay as they were.
C17_NoClientNoEffect ==
    [][\A t \in Transports :
          (/\ tr[t].pc = "idle"
           /\ tr'[t].pc \in {"send_next_seq", "error"}
           /\ clients[tr'[t].claude_session_id] = None)
          => /\ tr'[t].pc = "error"
             /\ tr'[t].err = "NoClient"
             /\ messages' = messages
             /\ sessions' = sessions
             /\ jsonl_lines' = jsonl_lines
             /\ files' = files
             /\ clients' = clients
             /\ conns' = conns]_vars

C17_Witness ==
    \E t \in Transports :
        /\ tr[t].pc = "error"
        /\ tr[t].err = "NoClient"
        /\ tr[t].claude_session_id # None
        /\ clients[tr[t].claude_session_id] = None

Uncaptured(t) == tr[t].pc = "error" /\ tr[t].err = "SessionIdUnavailable"

\* nothing is stored or cached for the connection of the failed first query
NothingStored(t) ==
    /\ tr[t].sid = None
    /\ \A s \in SessionIds : clients[s] # tr[t].conn
    /\ MessagesOf(messages, tr[t].conn) = {}
    /\ tr[t].conn \notin KnownIds

\* C19: when neither the events of the first response nor the project directory
\* yield a session id, the first query fails with "Could not capture session ID",
\* nothing is stored or cached for the connection, and the connection that was
\* opened for the query is closed.
C19_UncapturedConnectionClosed ==
    \A t \in Transports :
        Uncaptured(t) => NothingStored(t) /\ conns[tr[t].conn] = 0

\* C20: cleanup_client evicts the cached connection of its id and closes that
\* one connection; on an id that is not cached it leaves the cache, the
\* connections, the store and the files alone (the buffer of the id goes only
\* when another cleanup of the same id is still closing its connection); no
\* step of a call touches the cache entry, the connections or the buffer of
\* another id.
C20_CloseEvictsOnlyItsOwn ==
    [][\A t \in Transports :
          /\ (tr[t].pc = "closed" /\ tr'[t].pc = "cleanup_exit")
             => LET s == tr'[t].sid
                IN  /\ clients[s] # None
                    /\ tr'[t].conn = clients[s]
                    /\ clients'[s] = None
                    /\ \A x \in SessionIds \ {s} : clients'[x] = clients[x]
                    /\ UNCHANGED <<conns, streaming_buffers>>
          /\ (tr[t].pc = "cleanup_exit" /\ tr'[t].pc = "closed")
             => LET s == tr[t].sid
                IN  /\ conns' = [conns EXCEPT ![tr[t].conn] = @ - 1]
                    /\ conns[tr[t].conn] >= 1
                    /\ clients' = clients
                    /\ ~streaming_buffers'[s]
                    /\ \A x \in SessionIds \ {s} :
                          streaming_buffers'[x] = streaming_buffers[x]
          /\ (turns' # turns /\ tr' = tr)
             => /\ UNCHANGED <<clients, conns, storeVars, files>>
                /\ \A x \in SessionIds :
                      streaming_buffers'[x] # streaming_buffers[x]
                      => /\ clients[x] = None
                         /\ \E u \in Transports :
                               tr[u].pc = "cleanup_exit" /\ tr[u].sid = x]_vars

C20_Witness ==
    \E t \in Transports :
        /\ tr[t].pc = "cleanup_exit"
        /\ clients[tr[t].sid] = None
        /\ turns > 1
        /\ \E x \in SessionIds \ {tr[t].sid} : clients[x] = x /\ conns[x] >= 1

\* a transport that is bound to a session is leaving the endpoint
Closing(t) ==
    /\ tr[t].pc \in {"finally", "persist_delete", "persist_insert"}
    /\ tr[t].claude_session_id # None

\* C21: when a transport closes while bound to a session, the endpoint attempts
\* persist for that session (it reads the local log and, when it has lines,
\* replaces the stored lines); a failure of the store inside persist is swallowed
\* (the handler returns, no error step); no step of the closing handler changes
\* the cache or the open connections, so a cached connection of the session is
\* still cached and open when the handler has returned.
C21_CloseKeepsConnection ==
    [][\A t \in Transports :
          (Closing(t) /\ tr'[t] # tr[t])
          => LET s == tr[t].claude_session_id
                 lines == read_jsonl_file(files[s])
             IN  /\ UNCHANGED <<clients, conns>>
                 /\ clients[s] # None => conns'[clients'[s]] >= 1
                 /\ tr[t].pc = "finally"
                    => IF lines # <<>>
                       THEN tr'[t].pc = "persist_delete" /\ tr'[t].lines = lines
                       ELSE tr'[t].pc = "closed"
                 /\ tr[t].pc = "persist_delete"
                    => tr'[t].pc \in {"persist_insert", "closed"}
                 /\ tr[t].pc = "persist_insert"
                    => tr'[t].pc = "closed"]_vars

C21_Witness ==
    \E t \in Transports :
        /\ Closing(t)
        /\ tr[t].pc = "persist_insert"
        /\ clients[tr[t].claude_session_id] = tr[t].claude_session_id
        /\ conns[tr[t].claude_session_id] >= 1

\* C22: once the shutdown of the process has completed, the cache of the
\* registry is empty and no connection is open.
C22_ShutdownClosesConnections ==
    (\E t \in Transports : tr[t].pc = "shutdown")
    => \A s \in SessionIds : clients[s] = None /\ conns[s] = 0

\* the replay log of session s holds the line of a prompt that was sent on the
\* existing session (a send_query_with_persistence turn has run on it)
HadSendTurn(s) == \E i \in 1..Len(files[s].data) : files[s].data[i] = "b"

\* C23: every turn on an existing session is followed by a persist of the
\* session before the next prompt of the session is sent: when a handler is about
\* to send a prompt on a session that has had such a turn, and no other handler
\* is inside a turn of the session, the stored lines are the lines of the local
\* replay log.
C23_PersistBeforeNextPrompt ==
    \A t \in Transports :
        (/\ tr[t].pc = "send_query"
         /\ tr[t].conn = tr[t].sid
         /\ HadSendTurn(tr[t].sid)
         /\ \A u \in Transports \ {t} : tr[u].pc \in {"idle", "closed"})
        => get_jsonl_lines(jsonl_lines, tr[t].sid) = read_jsonl_file(files[tr[t].sid])

\* C24: restore and persist of one session never overlap; in particular no
\* restore reads the stored lines of a session while a persist of that session
\* stands between its delete_many and its insert_many.
C24_RestoreNotInsidePersist ==
    [][\A t \in Transports :
          (tr[t].pc = "resume_read" /\ tr'[t].pc = "resume_write")
          => ~ \E u \in Transports :
                  /\ tr[u].pc = "persist_insert"
                  /\ tr[u].claude_session_id = tr[t].sid]_vars

(***************************************************************************)
(* ConversationLogStore claims                                             *)
(***************************************************************************)
\* C25: delete_session / delete_thread removes the messages of the session, its
\* replay log lines and the session document, and returns TRUE exactly when the
\* session document existed; afterwards get_session finds nothing and, unless
\* another caller inserted into the session while the delete was running, no
\* message and no replay log line of the session is stored.  Other sessions
\* keep their documents, messages and lines.
C25_DeleteCascades ==
    [][\A t \in Transports :
          /\ (tr[t].pc = "idle" /\ tr'[t].pc \in {"delete_lines", "delete_doc"})
             => /\ MessagesOf(messages', tr'[t].sid) = {}
                /\ \A x \in SessionIds \ {tr'[t].sid} :
                      MessagesOf(messages', x) = MessagesOf(messages, x)
          /\ (tr[t].pc = "delete_lines" /\ tr'[t].pc = "delete_doc")
             => /\ LinesOf(jsonl_lines', tr[t].sid) = {}
                /\ \A x \in SessionIds \ {tr[t].sid} :
                      LinesOf(jsonl_lines', x) = LinesOf(jsonl_lines, x)
          /\ (tr[t].pc = "delete_doc" /\ tr'[t].pc = "idle")
             => LET s == tr[t].sid
                IN  /\ tr'[t].ret = (\E d \in sessions : d.claude_session_id = s)
                    /\ get_session(sessions', s) = None
                    /\ ~ghost[t] => /\ MessagesOf(messages', s) = {}
                                    /\ LinesOf(jsonl_lines', s) = {}
                    /\ \A x \in SessionIds \ {s} :
                          get_session(sessions', x) = get_session(sessions, x)]_vars

C25_Witness ==
    \E t, u \in Transports :
        /\ tr[t].pc = "idle" /\ tr[t].op = "delete" /\ tr[t].ret = TRUE
        /\ ~ghost[t]
        /\ tr[u].pc = "idle" /\ tr[u].op = "save" /\ tr[u].raised = None
        /\ tr[u].sid = tr[t].sid
        /\ MessagesOf(messages, tr[t].sid) = {}
        /\ get_session(sessions, tr[t].sid) = None

\* caller t has made the call op in this step, and the call has returned or
\* raised
CallReturned(t, op) ==
    /\ tr[t].pc = "idle"
    /\ tr'[t].pc = "idle"
    /\ tr'[t] # tr[t]
    /\ tr'[t].op = op

\* C26: over any sequence of update_session_usage / update_thread_usage calls
\* with non-negative arguments the total cost, the total input tokens and the
\* total output tokens of a session never decrease.
C26_UsageNeverDecreases ==
    [][\A t \in Transports :
          CallReturned(t, "usage")
          => \A d \in sessions :
                \E e \in sessions' :
                   /\ e.claude_session_id = d.claude_session_id
                   /\ e.total_cost_usd >= d.total_cost_usd
                   /\ e.total_input_tokens >= d.total_input_tokens
                   /\ e.total_output_tokens >= d.total_output_tokens]_vars

\* the usage counters of document d after a call that sets the cost to cost_usd
\* and adds the tokens
CostSetTokensAdded(d, arg) ==
    [d EXCEPT !.total_cost_usd = arg[1],
              !.total_input_tokens = @ + arg[2],
              !.total_output_tokens = @ + arg[3]]

\* the usage counters of document d after a call that adds cost and tokens
CostAndTokensAdded(d, arg) ==
    [d EXCEPT !.total_cost_usd = @ + arg[1],
              !.total_input_tokens = @ + arg[2],
              !.total_output_tokens = @ + arg[3]]

C28_NextSequenceIsMaxPlusOne ==
    [][\A t \in Transports :
          CallReturned(t, "next")
          => LET own == MessagesOf(messages, tr'[t].sid)
             IN  /\ own = {} => tr'[t].ret = 0
                 /\ own # {} => \E m \in own :
                                   /\ tr'[t].ret = m.doc.sequence + 1
                                   /\ \A n \in own : n.doc.sequence <= m.doc.sequence
                 /\ UNCHANGED storeVars]_vars

\* a call has returned 3 for a session that holds only the sequence 2 while the
\* other session holds messages too
C28_Witness ==
    \E t \in Transports :
        /\ tr[t].pc = "idle" /\ tr[t].op = "next" /\ tr[t].ret = 3
        /\ Cardinality(MessagesOf(messages, tr[t].sid)) = 1
        /\ \E x \in SessionIds \ {tr[t].sid} : MessagesOf(messages, x) # {}

\* C29: create_session / create_thread with an id that is already stored fails
\* with DuplicateKeyError and leaves the stored session document, with its
\* counters, and the messages as they were; with a new id it stores the new
\* document and returns it.
C29_CreateRejectsDuplicate ==
    [][\A t \in Transports :
          CallReturned(t, "create")
          => LET sid == tr'[t].sid
             IN  /\ (\E d \in sessions : d.claude_session_id = sid)
                    => /\ tr'[t].raised = "DuplicateKeyError"
                       /\ sessions' = sessions
                 /\ (~ \E d \in sessions : d.claude_session_id = sid)
                    => /\ tr'[t].raised = None
                       /\ tr'[t].ret = SessionDoc(sid)
                       /\ sessions' = sessions \cup {SessionDoc(sid)}
                       /\ get_session(sessions', sid) = tr'[t].ret
                 /\ messages' = messages
                 /\ jsonl_lines' = jsonl_lines]_vars

\* a create has been rejected for a session whose counters have moved
C29_Witness ==
    \E t \in Transports :
        /\ tr[t].pc = "idle" /\ tr[t].op = "create"
        /\ tr[t].raised = "DuplicateKeyError"
        /\ \E d \in sessions :
              /\ d.claude_session_id = tr[t].sid
              /\ d.total_cost_usd > 0

(***************************************************************************)
(* WorkflowRun claims                                                      *)
(***************************************************************************)
\* the run of the request of transport t
RunOf(t) == { r \in workflow_runs : r.id = tr[t].run_id }

\* C30: every workflow run is finalized: when the execution of its request
\* has ended, whether by success, unknown skill, runtime failure or client
\* disconnect, the status of the run is no longer running but completed or
\* failed.
C30_EndedRunIsFinalized ==
    \A t \in Transports :
        tr[t].pc = "done"
        => \A r \in RunOf(t) : r.status \in {"completed", "failed"}

(***************************************************************************)
(* Further SessionRegistry and ProtocolGateway claims                      *)
(***************************************************************************)
\* the first query of transport t has written to the store under tr[t].sid
FirstHasStored(t) ==
    /\ First(tr[t])
    /\ tr[t].pc \in {"inc_user", "save_asst", "inc_asst", "usage", "captured"}

\* C31: histories are never merged: a first query stores its messages only
\* under the id of the runtime session its own connection belongs to, and a
\* connection is cached only under the id of its own runtime session, whatever
\* replay log files exist and whatever other sessions are being created.
C31_NoSilentMerge ==
    /\ \A s \in SessionIds : clients[s] \in {None, s}
    /\ \A t \in Transports : FirstHasStored(t) => tr[t].sid = tr[t].conn

\* C32: on init_session the endpoint binds to the requested id and resumes it;
\* only once the resume has completed, with the connection of the id cached and
\* open, does it load the history, which holds every stored message of the
\* session exactly once in ascending sequence order, and it then sends one
\* session_ready event with that history and waits for the next message.
C32_ResumeThenSessionReady ==
    [][\A t \in Transports :
          LET s == tr'[t].sid
              h == tr'[t].history
              moved == tr'[t] # tr[t]
          IN  /\ (tr[t].pc = "idle" /\ tr'[t].pc \in {"history", "resume_read"})
                 => tr'[t].claude_session_id = s /\ s \in KnownIds
              /\ (tr'[t].pc = "ready" /\ moved)
                 => /\ tr[t].pc = "history"
                    /\ tr'[t].claude_session_id = s
                    /\ clients[s] # None
                    /\ conns[clients[s]] > 0
                    /\ \A i, j \in 1..Len(h) : i < j => h[i].sequence < h[j].sequence
                    /\ { h[i] : i \in 1..Len(h) } = { m.doc : m \in MessagesOf(messages, s) }
              /\ (tr[t].pc = "ready" /\ moved)
                 => /\ tr'[t].pc \in {"idle", "finally"}
                    /\ tr'[t].claude_session_id = tr[t].claude_session_id]_vars

\* a handler is about to send session_ready with a history of two or more
\* messages
C32_Witness ==
    \E t \in Transports :
        /\ tr[t].pc = "ready"
        /\ Len(tr[t].history) >= 2
        /\ tr[t].history[1].role = "user"

\* the handler of transport t has left its turn through an exception or a
\* disconnect and is on its way out of the endpoint
Leaving(t) == tr[t].pc \in {"error", "finally", "persist_delete", "persist_insert"}

\* C33: a store conflict in create_session or save_message ends the turn: the
\* refused write changes neither the messages nor the session documents (so
\* message_count is not incremented for it), and the handler goes on to the
\* error event and out of the endpoint without writing a message or a counter
\* again and without taking another query, so the message is not appended under
\* another sequence number and no later message of the turn is written.
C33_ConflictEndsTurn ==
    [][\A t \in Transports :
          LET moved == tr'[t] # tr[t]
              refused == \/ /\ tr[t].pc \in {"save_user", "save_asst"}
                            /\ KeyStored(tr[t].sid, tr[t].seq)
                         \/ /\ tr[t].pc = "first_create"
                            /\ tr[t].sid \in KnownIds
          IN  /\ (moved /\ refused)
                 => /\ tr'[t].pc = "error"
                    /\ messages' = messages
                    /\ sessions' = sessions
              /\ (moved /\ Leaving(t))
                 => /\ tr'[t].pc \in {"finally", "persist_delete", "persist_insert", "closed"}
                    /\ messages' = messages
                    /\ sessions' = sessions
                    /\ turns' = turns]_vars

\* a handler whose message was refused is leaving the endpoint, and the one
\* message stored under the refused key is the one another handler wrote
C33_Witness ==
    \E t \in Transports :
        /\ tr[t].pc = "finally"
        /\ tr[t].err = "DuplicateKeyError: messages"
        /\ \A m \in MessagesOf(messages, tr[t].sid) :
              m.doc.sequence = tr[t].seq => m.id = 1

\* no handler is inside delete_session
NoDeleteRunning == mpc = "idle"

\* C34: every stored message belongs to an existing session: whenever no
\* delete_session is running, no message is stored under a session id that
\* has no session document, however deletes and turns interleave.
C34_MessagesHaveSession ==
    NoDeleteRunning => \A m \in messages : m.doc.session_id \in KnownIds

\* ---- terminal events of the three streaming endpoints

\* websocket: a step that leaves the turn sends complete (pc complete -> idle)
\* or error (pc error -> finally) unless the client went away; after complete
\* the handler waits for the next query, after error it leaves the endpoint
GateOneTerminal(t) ==
    LET p == tr[t].pc
        q == tr'[t].pc
    IN  /\ (p \in GateTurnPcs /\ q \notin GateTurnPcs)
            => \/ p = "complete" /\ q = "idle"
               \/ p = "error" /\ q = "finally" /\ tr'[t].err # "WebSocketDisconnect"
               \/ q = "finally" /\ tr'[t].err = "WebSocketDisconnect"
        /\ p = "complete" => q \in {"complete", "idle", "finally"}
        /\ p = "error" => q \in {"error", "finally"}
        /\ p \in {"finally", "persist_delete", "persist_insert"}
            => q \notin GateTurnPcs

\* chat_in_workspace: the request ends with the complete event (after the
\* exit of the client block or after persist), with the error event of
\* `except Exception`, or because the client went away while it streamed
WsOneTerminal(t) ==
    LET p == tr[t].pc
        q == tr'[t].pc
    IN  /\ (p # "closed" /\ q = "closed")
            => p \in {"w_exit", "w_persist_insert", "w_error", "w_stream", "n_stream"}
        /\ p = "w_error" => q \in {"w_error", "closed"}
        /\ p = "w_persist_insert" => q \in {"w_persist_insert", "w_error", "closed"}

\* positions in the event list of a workflow request that hold a terminal event
WfTerminals(t) ==
    { i \in 1..Len(tr[t].events) : tr[t].events[i] \in {"complete", "error"} }

\* execute_workflow: at most one terminal event, nothing after it, and exactly
\* one once the generator has ended with its client still there
WfOneTerminal(t) ==
    /\ Cardinality(WfTerminals(t)) <= 1
    /\ WfTerminals(t) \subseteq {Len(tr[t].events)}
    /\ (tr[t].pc = "done" /\ tr[t].connected) => Cardinality(WfTerminals(t)) = 1

InFirstStream(t) == tr[t].pc \in {"first_open", "first_stream"}

\* the response of the handler's first prompt failed: the exception is on its
\* way through the endpoint
FirstStreamFailed(t) ==
    /\ First(tr[t])
    /\ tr[t].err = "RuntimeStreamError"
    /\ tr[t].pc \in {"error", "finally"}

\* C36: a first prompt whose stream fails before its end has no durable or
\* cached effect: no step of the operation before the end of the stream, and
\* no step of the handler after the failure, stores a session, a message or a
\* replay-log line or caches a connection.
C36_FailedFirstPromptNoEffect ==
    [][\A t \in Transports :
          (tr'[t] # tr[t] /\ (InFirstStream(t) \/ FirstStreamFailed(t)))
          => /\ sessions' = sessions
             /\ messages' = messages
             /\ jsonl_lines' = jsonl_lines
             /\ clients' = clients
             /\ streaming_buffers' = streaming_buffers]_vars

\* the first prompt of a handler failed after the runtime had started the replay
\* log of the new conversation; nothing is stored for the conversation and its
\* connection is cached under no id
C36_Witness ==
    \E t \in Transports :
        /\ FirstStreamFailed(t)
        /\ tr[t].pc = "finally"
        /\ tr[t].conn # None
        /\ files[tr[t].conn].exists
        /\ MessagesOf(messages, tr[t].conn) = {}
        /\ tr[t].conn \notin KnownIds
        /\ \A s \in SessionIds : clients[s] # tr[t].conn

\* ---- alternation of user and assistant messages

\* some handler is running a turn on session s
TurnRunning(s) == \E t \in Transports : TurnOn(tr[t]) = s

\* the messages of session s are one per sequence 0..n-1 with n even, a user
\* message at every even sequence and an assistant message at the next odd one
Alternating(s) ==
    LET M == MessagesOf(messages, s)
        n == Cardinality(M)
    IN  /\ n % 2 = 0
        /\ \A q \in 0..(n - 1) :
              \E m \in M :
                 /\ m.doc.sequence = q
                 /\ m.doc.role = (IF q % 2 = 0 THEN "user" ELSE "assistant")

\* C37: in every session whose turns all ran one at a time and completed
\* without error, user and assistant messages alternate: once no turn is
\* running on the session, every even sequence holds a user message and the
\* next odd sequence the assistant reply.
C37_MessagesAlternate ==
    \A s \in SessionIds : ~TurnRunning(s) => Alternating(s)

\* a websocket session after two completed turns: four messages, none running
C37_Witness ==
    /\ surface = "websocket"
    /\ \E s \in SessionIds :
          /\ ~TurnRunning(s)
          /\ Cardinality(MessagesOf(messages, s)) = 4
          /\ Alternating(s)

\* ---- store operations and the other sessions

\* the step leaves the messages, the replay-log lines and the session document
\* (with its counter and usage totals) of session x as they are
SessionUntouched(x) ==
    /\ MessagesOf(messages', x) = MessagesOf(messages, x)
    /\ LinesOf(jsonl_lines', x) = LinesOf(jsonl_lines, x)
    /\ { d \in sessions' : d.claude_session_id = x }
         = { d \in sessions : d.claude_session_id = x }

\* C38: a store operation on session s (save_message, increment_message_count,
\* the usage update, save_jsonl_lines, the delete of the session, and the
\* others) changes no message, replay-log line, counter or session document
\* of any session other than s.
C38_OtherSessionsUntouched ==
    [][\A t \in Transports :
          tr'[t] # tr[t]
          => \A x \in SessionIds \ {tr'[t].sid} : SessionUntouched(x)]_vars

\* a caller has deleted an existing session while another session is stored
C38_Witness ==
    \E t \in Transports :
        /\ tr[t].pc = "idle"
        /\ tr[t].op = "delete"
        /\ tr[t].ret = TRUE
        /\ \E d \in sessions : d.claude_session_id # tr[t].sid

\* ---- line numbers of the stored replay log

\* some caller is inside save_jsonl_lines for session s, between its
\* delete_many and its insert_many
PersistRunning(s) ==
    \E t \in Transports : tr[t].pc = "lines_insert" /\ tr[t].sid = s

\* the line numbers of the stored lines of session s
LineNumbers(s) == { d.line_number : d \in LinesOf(jsonl_lines, s) }

\* the stored lines of session s in line-number order
StoredLines(s) == SortByLineNumber(LinesOf(jsonl_lines, s))

\* C39: whenever no persist is in progress for a session, its stored lines are
\* numbered exactly 0..k-1, without gap or duplicate, in the order of the list
\* that a persist read from the local file, after any sequence of persists.
C39_LineNumbersContiguous ==
    \A s \in SessionIds :
        ~PersistRunning(s)
        => LET k == Cardinality(LinesOf(jsonl_lines, s))
           IN  /\ LineNumbers(s) = 0..(k - 1)
               /\ k > 0 => StoredLines(s) \in LineLists

\* two persists of one session overlapped: the insert_many of one of them was
\* refused by the unique index, both are over and the session has stored lines
C39_Witness ==
    \E t \in Transports :
        /\ tr[t].pc = "idle"
        /\ tr[t].op = "save_lines"
        /\ tr[t].raised = "BulkWriteError"
        /\ ~PersistRunning(tr[t].sid)
        /\ LinesOf(jsonl_lines, tr[t].sid) # {}

\* ---- a bound websocket stays bound

\* the handler's claude_session_id is set
Bound(r) == r.claude_session_id # None

\* C40: once a websocket transport is bound to a session id it stays bound
\* until its handler returns and never starts create_session_with_first_query
\* again: every later query goes to send_query_with_persistence on the id the
\* transport is bound to at that moment.
C40_BoundStaysBound ==
    [][\A t \in Transports :
          Bound(tr[t])
          => /\ Bound(tr'[t]) \/ tr'[t].pc = "closed"
             /\ tr'[t].pc \notin {"first_open", "first_stream", "first_create"}
             /\ tr[t].pc = "idle"
                => \/ tr'[t].pc \in {"idle", "history", "resume_read", "finally"}
                   \/ /\ tr'[t].pc = "send_next_seq"
                      /\ tr'[t].sid = tr'[t].claude_session_id
                      /\ tr'[t].conn = clients[tr'[t].sid]
                   \/ /\ tr'[t].pc = "error"
                      /\ tr'[t].err = "NoClient"
                      /\ ~HasClient(clients, tr'[t].claude_session_id)
             /\ tr'[t].pc \in RunningPcs \ {"complete"}
                => tr'[t].sid = tr'[t].claude_session_id]_vars

\* a transport that was bound by its first prompt is streaming a later query on
\* the session it is bound to
C40_Witness ==
    \E t \in Transports :
        /\ Bound(tr[t])
        /\ tr[t].pc = "send_stream"
        /\ tr[t].sid = tr[t].claude_session_id
        /\ Cardinality(MessagesOf(messages, tr[t].sid)) >= 3

====
